---- MODULE Spec2Model ----
(***************************************************************************)
(* Model of src/mobile/hf_downloader_mobile.py: the resumable transfer     *)
(* engine HFDownloader.download_file, the worker threads that call it      *)
(* (_single_download, _download_selected_files,                            *)
(* _fetch_files_and_show_selection) and the controller handlers of         *)
(* HFDownloaderApp that share state with them (start_download,             *)
(* _start_selected_download, toggle_pause, cancel_download,                *)
(* _download_finished, _show_file_selection).                              *)
(*                                                                         *)
(* A byte is one unit; a file is a sequence of bytes.  The remote content  *)
(* of every URL is Remote = <<1, ..., FileSize>>, so a destination is      *)
(* intact exactly when its data is a prefix of Remote.                     *)
(***************************************************************************)
EXTENDS Integers, Sequences, FiniteSets, TLC

\* ------------------------------------------------------------------ bounds
\* Size in bytes of the remote content of each URL.
FileSize == 3
\* Bytes per chunk of iter_content (chunk_size = 8192 in the source, scaled).
ChunkSize == 2
\* Thread slots: how many worker threads can be alive at once in the model.
MaxWorkers == 2

\* ------------------------------------------------------- program constants
\* max_retries (download_file).
MaxRetries == 3

Workers == 1..MaxWorkers
\* The directory listing: relative paths of the files of the repository, in
\* listing order.  Every entry declares the size FileSize.
Listing == <<"A", "B", "C">>
Paths == {Listing[i] : i \in 1..Len(Listing)}
Remote == [i \in 1..FileSize |-> i]

\* The user's inputs: the file URLs entered in single mode (by destination),
\* and the sets of files left ticked in the selection popup (all are ticked
\* when it opens).
SingleURLs == {"B"}
Selections == {Paths, {"B", "C"}}

Min(a, b) == IF a < b THEN a ELSE b
Prefix(s, n) == SubSeq(s, 1, n)
Drop(s, n) == SubSeq(s, n + 1, Len(s))
IsPrefix(s, r) == Len(s) <= Len(r) /\ s = Prefix(r, Len(s))
Last(s) == s[Len(s)]

VARIABLES
  fs,                   \* path -> [exists, data]: the destination files
  rangeOK,              \* the server honours Range requests
  cancel_flag,          \* HFDownloader.cancel_flag
  pause_flag,           \* HFDownloader.pause_flag
  is_downloading,       \* HFDownloaderApp.is_downloading
  is_paused,            \* HFDownloaderApp.is_paused
  download_btn_disabled,
  pause_btn_disabled,
  cancel_btn_disabled,
  popup_open,           \* file_selection_popup is open
  clock,                \* Clock.schedule_once queue of controller events
  th,                   \* thread slot -> frame of the worker thread
  call,                 \* a call of a helper method of HFDownloader: its
                        \* name and what it is given
  ret,                  \* what that call returned
  manifest,             \* the file .hf_download_state.json of the save
                        \* directory: absent, or what was written to it
  state_file,           \* HFDownloaderApp.state_file
  pending_files,        \* HFDownloaderApp.pending_files
  audit                 \* the frames keep the history of cancel requests
                        \* and of failed transfers (fields creq, failed)

vars == <<fs, rangeOK, cancel_flag, pause_flag, is_downloading, is_paused,
          download_btn_disabled, pause_btn_disabled, cancel_btn_disabled,
          popup_open, clock, th, call, ret, manifest, state_file, pending_files, audit>>

ui == <<is_downloading, is_paused, download_btn_disabled, pause_btn_disabled,
        cancel_btn_disabled, popup_open>>

\* The frame of a thread slot nobody runs in.
IdleThread ==
  [kind |-> "none", pc |-> "idle",
   \* _download_selected_files: the list, the position in it, the local
   \* size found for the current file, and the lines that log_message has
   \* received from the events of lines 852-869 for the file the loop dealt
   \* with last
   files |-> <<>>, idx |-> 0, existing_size |-> 0, blog |-> <<>>,
   \* what the loop did with the file it dealt with last ("patherr", "skip",
   \* "resume" or "fresh"; "-": no file yet)
   cls |-> "-",
   \* the file object of line 186: the number of bytes written to it that
   \* may still be in its buffer (fs holds them already; they are lost if
   \* the flush fails)
   buffered |-> 0,
   \* download_file: its parameters and locals
   path |-> "-", downloaded_size |-> 0, total_size |-> 0, range |-> -1,
   retry_count |-> 0, status_code |-> 0, body |-> <<>>, chunk |-> <<>>,
   result |-> FALSE,
   \* callbacks of the current download_file invocation: the status
   \* messages in order, and the byte count of the latest progress report
   \* (-1: none yet), with its percentage
   statuses |-> <<>>, progress |-> -1, percent |-> -1,
   \* history of the current invocation: attempts started (GETs of line
   \* 172), Range start of the first of them (-2: none yet), size of the
   \* destination at the call (-1: absent), chunks written with cancel_flag
   \* set, size of the destination when cancel was requested during
   \* streaming (-1: not requested)
   attempts |-> 0, firstRange |-> -2,
   start |-> -1, cwrites |-> 0, csize |-> -1,
   \* history of the size probe, kept until the first GET: the outcome of
   \* the HEAD request (kind "-": none) and whether get_file_size raised
   \* the flags <<cancel_flag, pause_flag>> the invocation found at its
   \* call, kept until the size probe; the value of downloaded_size that
   \* the fallback of the current attempt discarded (-1: no fallback)
   found |-> <<FALSE, FALSE>>, dropped |-> -1,
   \* the chunk the pause wait was holding when pause was cleared (<<>>:
   \* no wait was ended that way), kept until the next chunk is asked for
   held |-> <<>>,
   head |-> [kind |-> "-", status |-> 0, has_length |-> FALSE,
             parses |-> FALSE, length |-> 0],
   head_raised |-> FALSE,
   \* the class of the last exception raised in the try block of an attempt
   \* ("-": none since the last GET was issued)
   exc |-> "-",
   \* (when audit holds) cancel_download was called while this transfer
   \* was running or about to run and had bytes to fetch beyond the chunk in
   \* hand
   creq |-> FALSE,
   \* the events (statuses, "progress") that the invocation emitted after
   \* its first terminal status, in order
   tail |-> <<>>,
   \* (when audit holds) _download_selected_files: a download_file call of
   \* this batch has returned False
   failed |-> FALSE]

\* os.path.getsize / os.path.exists
GetSize(p) == Len(fs[p].data)
Exists(p) == fs[p].exists

\* The files the program can find at start: A fully present, B partially
\* present (a proper non-empty prefix when FileSize allows one), C absent or
\* empty.
InitFiles ==
  { f \in [Paths -> [exists : BOOLEAN, data : {Prefix(Remote, n) : n \in 0..FileSize}]] :
      /\ f["A"] = [exists |-> TRUE, data |-> Remote]
      /\ f["B"].exists /\ Len(f["B"].data) \in 1..(FileSize - 1)
      /\ f["C"].data = <<>> }

\* No helper call is followed.
NoCall == [fn |-> "-"]

\* Python's None, where a text can stand.
None == <<"<None>">>

\* No manifest is on disk.
NoManifest ==
  [written |-> FALSE, valid |-> FALSE, files |-> <<>>, save_dir |-> "",
   url |-> ""]

Init ==
  /\ call = NoCall
  /\ ret = NoCall
  /\ manifest = NoManifest
  /\ state_file = None
  /\ pending_files = <<>>
  /\ audit = FALSE
  /\ fs \in InitFiles
  /\ rangeOK \in BOOLEAN
  /\ cancel_flag = FALSE
  /\ pause_flag = FALSE
  /\ is_downloading = FALSE
  /\ is_paused = FALSE
  /\ download_btn_disabled = FALSE
  /\ pause_btn_disabled = TRUE
  /\ cancel_btn_disabled = TRUE
  /\ popup_open = FALSE
  /\ clock = <<>>
  /\ th = [t \in Workers |-> IdleThread]


\* ------------------------------------------------------------ the server
\* Status of the response to a GET whose Range header asks for bytes
\* range- (range = -1: no Range header).
ServerStatus(range) ==
  IF range >= 0 /\ rangeOK
    THEN (IF range < FileSize THEN 206 ELSE 416)
    ELSE 200

\* Body the server streams with that response.
ServerBody(range) ==
  IF ServerStatus(range) = 206 THEN Drop(Remote, range)
  ELSE IF ServerStatus(range) = 200 THEN Remote
  ELSE <<>>

\* requests.Session.get: the outcomes of one GET.  A response (the one the
\* server gives, or an error status), a transient network failure
\* (ConnectionError, Timeout, ChunkedEncodingError) or another exception.
GetOutcomes(range) ==
  { [kind |-> "response", code |-> ServerStatus(range), body |-> ServerBody(range)],
    [kind |-> "response", code |-> 500, body |-> <<>>],
    [kind |-> "transient", code |-> 0, body |-> <<>>],
    [kind |-> "other", code |-> 0, body |-> <<>>] }

\* requests.Session.head: the outcomes of the size probe.  The request
\* fails (network error, timeout), or a response comes with a status and
\* possibly a Content-Length header, whose value is a number or not.
HeadOutcomes ==
  { [kind |-> "exception", status |-> 0, has_length |-> FALSE,
     parses |-> FALSE, length |-> 0],
    [kind |-> "response", status |-> 404, has_length |-> TRUE,
     parses |-> TRUE, length |-> FileSize],
    [kind |-> "response", status |-> 200, has_length |-> FALSE,
     parses |-> FALSE, length |-> 0],
    [kind |-> "response", status |-> 200, has_length |-> TRUE,
     parses |-> FALSE, length |-> 0],
    [kind |-> "response", status |-> 200, has_length |-> TRUE,
     parses |-> TRUE, length |-> FileSize] }

\* Faulty variant of Caught: only the errors of the request are caught.
CaughtRequestOnly(exc) == exc = "RequestException"

\* line 121: the bare except of get_file_size catches every exception.
Caught(exc) == TRUE

\* lines 115-123 get_file_size: the Content-Length of a 200 response (0
\* when the header is absent), 0 for any other status and for an exception
\* raised by the request or by int().
get_file_size(h) ==
  LET exc == IF h.kind = "exception" THEN "RequestException"
             ELSE IF h.status = 200 /\ h.has_length /\ ~h.parses
               THEN "ValueError"
             ELSE "-" IN
  IF exc # "-"
    THEN [raised |-> ~Caught(exc), value |-> 0]
  ELSE IF h.status = 200
    THEN [raised |-> FALSE, value |-> IF h.has_length THEN h.length ELSE 0]
  ELSE [raised |-> FALSE, value |-> 0]

\* ------------------------------------------- expressions of download_file
\* Faulty variant of AlreadyComplete: the sizes are never found equal.
AlreadyCompleteNever(downloaded_size, total_size) ==
  downloaded_size > 0 /\ total_size > 0 /\ downloaded_size > total_size

\* line 154: the destination already holds the whole remote content.
AlreadyComplete(downloaded_size, total_size) ==
  downloaded_size > 0 /\ total_size > 0 /\ downloaded_size = total_size

\* Faulty variant of RangeHeader: the range starts one byte too far.
RangeHeaderSkipsByte(downloaded_size) ==
  IF downloaded_size > 0 THEN downloaded_size + 1 ELSE -1

\* lines 162-163: the start of the requested range (-1: no header).
RangeHeader(downloaded_size) ==
  IF downloaded_size > 0 THEN downloaded_size ELSE -1

\* Faulty variant of CanRetry: one attempt too many.
CanRetryOnceMore(retry_count) == retry_count <= MaxRetries

\* line 170 / line 214: attempts remain.
CanRetry(retry_count) == retry_count < MaxRetries

\* line 174: a range was requested and the server did not honour it.
NeedsFallback(downloaded_size, status_code) ==
  downloaded_size > 0 /\ status_code # 206

\* Faulty variant of StatusOK: the status check lets every response through.
StatusAlwaysOK(status_code) == status_code >= 200

\* line 178: the response can be streamed.
StatusOK(status_code) == status_code \in {200, 206}

\* Faulty variant of OpenMode: the destination is always appended to.
OpenModeAppends(downloaded_size) == "ab"

\* line 183: mode of open().
OpenMode(downloaded_size) == IF downloaded_size > 0 THEN "ab" ELSE "wb"

\* Faulty variant of PauseBlocked: there is no pause wait.
PauseIgnored == FALSE

\* Faulty variant of PauseBlocked: the wait looks at pause_flag only.
PauseBlockedIgnoresCancel == pause_flag

\* line 189: the pause wait keeps sleeping.
PauseBlocked == pause_flag /\ ~cancel_flag

\* line 192: the cancel check.
CancelObserved == cancel_flag

\* Faulty variant of Advance: the count restarts with every chunk.
AdvanceForgets(downloaded_size, chunk) == Len(chunk)

\* line 199: downloaded_size += len(chunk).
Advance(downloaded_size, chunk) == downloaded_size + Len(chunk)

\* Faulty variant of ReportsProgress: the report is made whatever the total.
ReportsProgressAlways(total_size) == TRUE

\* line 201: the progress report is made when the total is known
\* (progress_callback is always passed by the application).
ReportsProgress(total_size) == total_size > 0

\* line 202: percentage = downloaded_size / total_size * 100, here rounded
\* down to a whole number; Divides tells whether the division is defined
\* (Python raises ZeroDivisionError otherwise).
Divides(total_size) == total_size # 0
Percentage(downloaded_size, total_size) == (downloaded_size * 100) \div total_size

\* open(save_path, mode): 'wb' truncates, 'ab' keeps the data.
OpenFile(file, mode) ==
  IF mode = "wb" THEN [exists |-> TRUE, data |-> <<>>]
  ELSE [exists |-> TRUE, data |-> file.data]

\* f.statuses is the sequence of the statuses that status_callback receives
\* from the events an invocation schedules, in the order of the calls of
\* Clock.schedule_once.  The statuses that end an invocation (lines 142,
\* 156, 180, 194, 207, 225 and 229):
TerminalStatuses ==
  {"Path error", "File exists", "HTTP", "Cancelled", "Done!", "Network failed",
   "Error"}
HasTerminal(f) == \E k \in 1..Len(f.statuses) : f.statuses[k] \in TerminalStatuses

\* The tail of frame f once event e is emitted (Clock.schedule_once keeps
\* the order of the calls).
After(f, e) == IF HasTerminal(f) THEN Append(f.tail, e) ELSE f.tail

\* The file after a flush of its file object failed (f.write, or the close
\* at the end of the with block of line 186): the last k bytes written never
\* reached it.
Unflushed(file, k) == [file EXCEPT !.data = Prefix(@, Len(@) - k)]

\* The file after f.write (line 198) raised inside the chunk: the buffer was
\* flushed and the first j units of the chunk were written, fewer than the
\* chunk has.  Sizes are counted in units, and a unit that was started
\* counts as written.
PartWritten(file, chunk, j) == [file EXCEPT !.data = @ \o Prefix(chunk, j)]

\* Frame of a thread that leaves download_file with a terminal status.
Return(f, status, res) ==
  [f EXCEPT !.pc = "ret", !.result = res, !.statuses = Append(@, status),
            !.tail = After(f, status), !.buffered = 0,
            !.chunk = <<>>, !.body = <<>>]

\* Frame of a thread that leaves an except block of download_file whose
\* status event reads the exception: lambda dt: status_callback(f"... {e}")
\* looks up e when the Clock runs the event, and e, the name bound by
\* "except Exception as e", is unbound when the except block is left (the
\* return of lines 143 and 230).  The status is delivered only if the
\* controller ran the event before the worker left the block; otherwise the
\* event raises NameError and status_callback receives nothing.
ReturnReading(f, status, delivered) ==
  IF delivered THEN Return(f, status, FALSE)
  ELSE [f EXCEPT !.pc = "ret", !.result = FALSE, !.buffered = 0,
                 !.chunk = <<>>, !.body = <<>>]

Step(t, f) == th' = [th EXCEPT ![t] = f]

\* Frame in which an exception of class kind was raised: inside the try
\* block of lines 171-208 ("transient", "other") or by os.makedirs at line
\* 139 ("path").
Raised(f, kind) == [f EXCEPT !.exc = kind]

\* Faulty variant of RetryRange: the Range header of the failed attempt is
\* kept.
RetryRangeStale(range, size) == range

\* line 222: the start of the range the next attempt asks for, size being
\* the size of the destination found at line 221.
RetryRange(range, size) == size

\* lines 210-218 and 223-226: a transient network failure (ConnectionError,
\* Timeout, ChunkedEncodingError): the retry is counted and announced and
\* the thread goes to sleep (line 218), or it gives up.
OnTransient(f) ==
  LET rc == f.retry_count + 1 IN
  IF CanRetry(rc)
    THEN [f EXCEPT !.pc = "sleep", !.retry_count = rc,
            !.statuses = Append(@, "retry"), !.dropped = -1, !.held = <<>>,
            !.tail = After(f, "retry"), !.buffered = 0,
            !.chunk = <<>>, !.body = <<>>]
    ELSE Return([f EXCEPT !.retry_count = rc], "Network failed", FALSE)

\* lines 227-230: any other exception ends the transfer; the status event
\* of line 229 reads e.
OnOther(f, delivered) == ReturnReading(f, "Error", delivered)

\* Frame after a GET ended with outcome o; next is where a response goes.
AfterGet(f, o, next, delivered) ==
  IF o.kind = "response"
    THEN [f EXCEPT !.pc = next, !.status_code = o.code, !.body = o.body]
  ELSE IF o.kind = "transient" THEN OnTransient(Raised(f, "transient"))
  ELSE OnOther(Raised(f, "other"), delivered)

\* ------------------------------------------------------ download_file
\* lines 140-143: os.makedirs raised: schedule the path error, return
\* False; the status event of line 142 reads e.
OnPathError(f, delivered) == ReturnReading(f, "Path error", delivered)

\* Faulty variant of FlagsReset: the flags keep the values they had.
FlagsKept(cancel, pause) == <<cancel, pause>>

\* lines 135-136: <<cancel_flag, pause_flag>> after the first two statements.
FlagsReset(cancel, pause) == <<FALSE, FALSE>>

\* lines 135-143: the flags are reset and the destination directory is made
\* (os.makedirs can fail).  A new invocation's history starts.
DfReset(t) ==
  /\ th[t].pc = "reset"
  /\ cancel_flag' = FlagsReset(cancel_flag, pause_flag)[1]
  /\ pause_flag' = FlagsReset(cancel_flag, pause_flag)[2]
  /\ LET f == [th[t] EXCEPT
                 !.found = <<cancel_flag, pause_flag>>, !.dropped = -1,
                 !.held = <<>>, !.tail = <<>>, !.buffered = 0,
                 !.downloaded_size = 0, !.total_size = 0, !.range = -1,
                 !.retry_count = 0, !.status_code = 0, !.body = <<>>,
                 !.chunk = <<>>, !.result = FALSE,
                 !.statuses = <<>>, !.progress = -1, !.percent = -1,
                 !.attempts = 0, !.firstRange = -2,
                 !.start = IF Exists(th[t].path) THEN GetSize(th[t].path) ELSE -1,
                 !.cwrites = 0, !.csize = -1,
                 !.head = IdleThread.head, !.head_raised = FALSE,
                 !.exc = "-"] IN
     \E ok \in BOOLEAN, delivered \in BOOLEAN :
       Step(t, IF ok THEN [f EXCEPT !.pc = "probe"]
                     ELSE OnPathError(Raised(f, "path"), delivered))
  /\ UNCHANGED <<fs, rangeOK, call, ret, manifest, state_file, pending_files, audit, ui, clock>>

\* lines 145-168: the size of the existing file, the size probe (lines
\* 149-152: total_size is what get_file_size returns, 0 if it raises), the
\* idempotence shortcut, else the Range header.
DfProbe(t) ==
  /\ th[t].pc = "probe"
  /\ \E h \in HeadOutcomes :
       LET size == IF Exists(th[t].path) THEN GetSize(th[t].path) ELSE 0
           r == get_file_size(h)
           probe == IF r.raised THEN 0 ELSE r.value
           f == [th[t] EXCEPT !.downloaded_size = size, !.total_size = probe,
                              !.found = <<FALSE, FALSE>>,
                              !.head = h, !.head_raised = r.raised] IN
       IF AlreadyComplete(size, probe)
         THEN \* lines 155-159: the status is scheduled, then the progress
              Step(t, [Return(f, "File exists", TRUE) EXCEPT
                         !.progress = probe, !.percent = 100,
                         !.tail = After(Return(f, "File exists", TRUE),
                                        "progress")])
         ELSE Step(t, [f EXCEPT !.pc = "get",
                         !.range = RangeHeader(size),
                         !.tail = IF size > 0 THEN After(f, "Resuming...") ELSE @,
                         !.statuses = IF size > 0
                                        THEN Append(@, "Resuming...") ELSE @,
                         !.retry_count = 0])
  /\ UNCHANGED <<fs, rangeOK, call, ret, manifest, state_file, pending_files, audit, cancel_flag, pause_flag, ui, clock>>

\* lines 170-172 (and line 232 when the loop ends): the GET of this attempt,
\* with the current headers.
DfGet(t) ==
  /\ th[t].pc = "get"
  /\ IF CanRetry(th[t].retry_count)
       THEN \E o \in GetOutcomes(th[t].range), delivered \in BOOLEAN :
              LET f == [th[t] EXCEPT
                          !.attempts = @ + 1,
                          !.head = IdleThread.head, !.head_raised = FALSE,
                          !.exc = "-",
                          !.firstRange = IF @ = -2 THEN th[t].range ELSE @] IN
              Step(t, AfterGet(f, o, "chk206", delivered))
       ELSE Step(t, [th[t] EXCEPT !.pc = "ret", !.result = FALSE])
  /\ UNCHANGED <<fs, rangeOK, call, ret, manifest, state_file, pending_files, audit, cancel_flag, pause_flag, ui, clock>>

\* lines 174-176: the server did not honour the range: start over with a
\* GET that carries no Range header.
DfFallback(t) ==
  /\ th[t].pc = "chk206"
  /\ IF NeedsFallback(th[t].downloaded_size, th[t].status_code)
       THEN \E o \in GetOutcomes(-1), delivered \in BOOLEAN :
              Step(t, AfterGet([th[t] EXCEPT !.downloaded_size = 0,
                                             !.dropped = th[t].downloaded_size],
                               o, "open", delivered))
       ELSE Step(t, [th[t] EXCEPT !.pc = "open"])
  /\ UNCHANGED <<fs, rangeOK, call, ret, manifest, state_file, pending_files, audit, cancel_flag, pause_flag, ui, clock>>

\* lines 178-186: an HTTP error status ends the transfer; else open the
\* destination, appending or truncating (open() can raise).
DfOpen(t) ==
  /\ th[t].pc = "open"
  /\ LET f == th[t]
         mode == OpenMode(f.downloaded_size) IN
     IF ~StatusOK(f.status_code)
       THEN Step(t, Return(f, "HTTP", FALSE)) /\ UNCHANGED fs
       ELSE \/ /\ fs' = [fs EXCEPT ![f.path] = OpenFile(fs[f.path], mode)]
               /\ Step(t, [f EXCEPT !.pc = "next"])
            \/ /\ \E delivered \in BOOLEAN :
                    Step(t, OnOther(Raised(f, "other"), delivered))
               /\ UNCHANGED fs
  /\ UNCHANGED <<rangeOK, call, ret, manifest, state_file, pending_files, audit, cancel_flag, pause_flag, ui, clock>>

\* line 187 (and lines 206-208): iter_content yields the next chunk, or the
\* stream ends cleanly and the file is closed, or the connection drops, or
\* another exception ends the attempt: raised by iter_content (a decoding
\* error), or by the close of the file when the with block is left, whose
\* flush failed (disk full, file size limit).
DfNext(t) ==
  /\ th[t].pc = "next"
  /\ LET f == th[t] IN
     \/ /\ f.body = <<>>
        /\ Step(t, Return(f, "Done!", TRUE))
        /\ UNCHANGED fs
     \/ /\ f.body # <<>>
        /\ Step(t, [f EXCEPT !.pc = "pause", !.held = <<>>,
                      !.chunk = Prefix(f.body, Min(ChunkSize, Len(f.body))),
                      !.body = Drop(f.body, Min(ChunkSize, Len(f.body)))])
        /\ UNCHANGED fs
     \/ /\ Step(t, OnTransient(Raised(f, "transient")))
        /\ UNCHANGED fs
     \/ \E delivered \in BOOLEAN, k \in 0..f.buffered :
          /\ Step(t, OnOther(Raised(f, "other"), delivered))
          /\ fs' = [fs EXCEPT ![f.path] = Unflushed(@, k)]
  /\ UNCHANGED <<rangeOK, call, ret, manifest, state_file, pending_files, audit, cancel_flag, pause_flag, ui, clock>>

\* lines 189-190: the pause wait; it ends when pause is cleared or cancel set.
DfPause(t) ==
  /\ th[t].pc = "pause"
  /\ ~PauseBlocked
  /\ Step(t, [th[t] EXCEPT !.pc = "cancelchk"])
  /\ UNCHANGED <<fs, rangeOK, call, ret, manifest, state_file, pending_files, audit, cancel_flag, pause_flag, ui, clock>>

\* lines 192-195: the cancel check of the chunk.  The return of line 195
\* leaves the with block: the file is closed, and a close whose flush fails
\* raises inside the try block (lines 227-230) after "Cancelled" was
\* scheduled.
DfCancelChk(t) ==
  /\ th[t].pc = "cancelchk"
  /\ LET f == th[t] IN
     IF CancelObserved
       THEN \/ /\ Step(t, Return(f, "Cancelled", FALSE))
               /\ UNCHANGED fs
            \/ \E delivered \in BOOLEAN, k \in 0..f.buffered :
                 /\ Step(t, OnOther(Raised(Return(f, "Cancelled", FALSE),
                                           "other"), delivered))
                 /\ fs' = [fs EXCEPT ![f.path] = Unflushed(@, k)]
       ELSE /\ Step(t, [f EXCEPT !.pc = "write"])
            /\ UNCHANGED fs
  /\ UNCHANGED <<rangeOK, call, ret, manifest, state_file, pending_files, audit, cancel_flag, pause_flag, ui, clock>>

\* lines 197-204: write the chunk, advance downloaded_size, report progress
\* when the total is known (a division by zero would raise after the write
\* and end the transfer as any other exception); f.write can raise (disk
\* full, file size limit).  It raises while it flushes the buffer, and then
\* bytes of the chunk before, still in the buffer, can be lost; or while
\* it writes the chunk itself, and then the part of the chunk that reached
\* the file stays in it (PartWritten), downloaded_size not being advanced.
DfWrite(t) ==
  /\ th[t].pc = "write"
  /\ LET f == th[t]
         n == Advance(f.downloaded_size, f.chunk) IN
     \/ /\ fs' = [fs EXCEPT ![f.path].data = @ \o f.chunk]
        /\ LET w == [f EXCEPT !.downloaded_size = n,
                              !.buffered = Len(f.chunk),
                              !.cwrites = IF cancel_flag THEN @ + 1 ELSE @] IN
           IF ~ReportsProgress(f.total_size)
             THEN Step(t, [w EXCEPT !.pc = "next", !.chunk = <<>>])
           ELSE IF Divides(f.total_size)
             THEN Step(t, [w EXCEPT !.pc = "next", !.chunk = <<>>,
                             !.tail = After(w, "progress"),
                             !.progress = n,
                             !.percent = Percentage(n, f.total_size)])
           ELSE \E delivered \in BOOLEAN :
                  Step(t, OnOther(Raised(w, "other"), delivered))
     \/ \E delivered \in BOOLEAN, k \in 0..f.buffered :
          /\ Step(t, OnOther(Raised(f, "other"), delivered))
          /\ fs' = [fs EXCEPT ![f.path] = Unflushed(@, k)]
     \/ \E delivered \in BOOLEAN, j \in 1..(Len(f.chunk) - 1) :
          /\ Step(t, OnOther(Raised(f, "other"), delivered))
          /\ fs' = [fs EXCEPT ![f.path] = PartWritten(@, f.chunk, j)]
  /\ UNCHANGED <<rangeOK, call, ret, manifest, state_file, pending_files, audit, cancel_flag, pause_flag, ui, clock>>

\* lines 218-222: the sleep of 2 seconds is over: the size of the
\* destination is read again and the Range header rewritten; the loop goes
\* to its next attempt.
DfBackoff(t) ==
  /\ th[t].pc = "sleep"
  /\ LET f == th[t] IN
     Step(t, [f EXCEPT !.pc = "get",
                !.downloaded_size = IF Exists(f.path) THEN GetSize(f.path)
                                    ELSE @,
                !.range = IF Exists(f.path) THEN RetryRange(@, GetSize(f.path))
                          ELSE @])
  /\ UNCHANGED <<fs, rangeOK, call, ret, manifest, state_file, pending_files, audit, cancel_flag, pause_flag, ui, clock>>

DownloadFile(t) ==
  \/ DfReset(t) \/ DfProbe(t) \/ DfGet(t) \/ DfFallback(t) \/ DfOpen(t)
  \/ DfNext(t) \/ DfPause(t) \/ DfCancelChk(t) \/ DfWrite(t)
  \/ DfBackoff(t)

\* ------------------------------------------------------ worker threads
\* Clock.schedule_once(..., 0): the event joins the controller's queue.
Schedule(e) == clock' = Append(clock, e)
\* An event is the scheduled callback with its argument; rest is history:
\* the number of files of a batch's list that its loop had not reached when
\* it scheduled the event.
Finished(success) == [type |-> "finished", success |-> success, rest |-> 0]
ShowSelection == [type |-> "show", success |-> FALSE, rest |-> 0]

\* lines 880-896 _single_download: download_file returned; schedule
\* _download_finished with its result.
SgFinish(t) ==
  /\ th[t].kind = "single" /\ th[t].pc = "ret"
  /\ Schedule(Finished(th[t].result))
  /\ Step(t, IdleThread)
  /\ UNCHANGED <<fs, rangeOK, call, ret, manifest, state_file, pending_files, audit, cancel_flag, pause_flag, ui>>

\* Faulty variant of BatchContinue: the loop never looks at is_downloading.
BatchContinueAlways == TRUE

\* line 844: the batch goes on while is_downloading holds.
BatchContinue == is_downloading

\* Faulty variant of Classify: only a file larger than declared is skipped.
ClassifyStrict(existing_size, size) ==
  IF existing_size > 0 /\ existing_size < size THEN "resume"
  ELSE IF existing_size > size /\ size > 0 THEN "skip"
  ELSE "fresh"

\* lines 860-869: the status line of a file of the batch.
Classify(existing_size, size) ==
  IF existing_size > 0 /\ existing_size < size THEN "resume"
  ELSE IF existing_size >= size /\ size > 0 THEN "skip"
  ELSE "fresh"

\* lines 843-875: the next file of the list, unless the batch is interrupted
\* or the list is exhausted (line 878: schedule _download_finished(True)).
\* The directory is made (failure: next file; the log event of line 852
\* reads e, which is unbound once the except block is left by the continue,
\* so the line is logged only if the controller ran the event before that),
\* the file is classified by its local size, then skipped or handed to
\* download_file.
BtNext(t) ==
  /\ th[t].pc = "b_loop"
  /\ LET f == th[t] IN
     IF f.idx <= Len(f.files) /\ BatchContinue
       THEN LET p == f.files[f.idx]
                e == IF Exists(p) THEN GetSize(p) ELSE 0
                c == Classify(e, FileSize) IN
            /\ \/ \E delivered \in BOOLEAN :
                    Step(t, [f EXCEPT !.idx = @ + 1, !.cls = "patherr",
                               !.blog = IF delivered THEN <<"patherr">>
                                        ELSE <<>>])
               \/ Step(t, IF c = "skip"
                            THEN [f EXCEPT !.idx = @ + 1, !.blog = <<c>>,
                                    !.cls = c]
                            ELSE [f EXCEPT !.pc = "reset", !.path = p,
                                    !.existing_size = e, !.blog = <<c>>,
                                    !.cls = c])
            /\ UNCHANGED clock
       ELSE /\ Schedule([Finished(TRUE) EXCEPT !.rest = Len(f.files) + 1 - f.idx])
            /\ Step(t, IdleThread)
  /\ UNCHANGED <<fs, rangeOK, call, ret, manifest, state_file, pending_files, audit, cancel_flag, pause_flag, ui>>

\* lines 871-875: download_file returned; its result is not used.
BtReturn(t) ==
  /\ th[t].kind = "batch" /\ th[t].pc = "ret"
  /\ Step(t, [IdleThread EXCEPT !.kind = "batch", !.pc = "b_loop",
                !.files = th[t].files, !.idx = th[t].idx + 1,
                !.failed = th[t].failed \/ (audit /\ ~th[t].result),
                !.blog = th[t].blog, !.cls = th[t].cls])
  /\ UNCHANGED <<fs, rangeOK, call, ret, manifest, state_file, pending_files, audit, cancel_flag, pause_flag, ui, clock>>

\* lines 690-710: _fetch_files_and_show_selection: the listing arrives with
\* files in it, or get_repo_files returns None or an empty list (line 700:
\* "if not files") or something raises (lines 707-710).
FtFetch(t) ==
  /\ th[t].pc = "fetch"
  /\ \E ok \in BOOLEAN :
       Schedule(IF ok THEN ShowSelection ELSE Finished(FALSE))
  /\ Step(t, IdleThread)
  /\ UNCHANGED <<fs, rangeOK, call, ret, manifest, state_file, pending_files, audit, cancel_flag, pause_flag, ui>>

Worker(t) ==
  \/ DownloadFile(t)
  \/ SgFinish(t)
  \/ BtNext(t) \/ BtReturn(t)
  \/ FtFetch(t)

\* ---------------------------------------------------------- controller
\* threading.Thread(...).start(): the thread runs in the first free slot,
\* or start() raises (RuntimeError: can't start new thread) and no thread
\* runs.
FreeSlots == {t \in Workers : th[t].kind = "none"}
Spawn(frame, started) ==
  IF started
    THEN /\ FreeSlots # {}
         /\ LET t == CHOOSE u \in FreeSlots : \A v \in FreeSlots : u <= v IN
              Step(t, frame)
    ELSE UNCHANGED th

\* Faulty variant of StartDisablesButton: the button stays enabled.
StartLeavesButtonEnabled == FALSE

\* line 664 (and line 827): the Start button while a download runs.
StartDisablesButton == TRUE

\* A press reaches a button of the main window when no popup covers it.
CanPress(disabled) == ~disabled /\ ~popup_open

\* lines 664-669 (and lines 827-832): buttons and flags when a download
\* starts; start_btn is the state the handler leaves the Start button in.
StartControls(start_btn) ==
  /\ download_btn_disabled' = start_btn
  /\ cancel_btn_disabled' = FALSE
  /\ pause_btn_disabled' = FALSE
  /\ is_downloading' = TRUE
  /\ is_paused' = FALSE
  /\ pause_flag' = FALSE

\* lines 686-688: when start_download catches an exception (the thread could
\* not be started), the Start button is enabled again.
StartButtonAfter(started) == IF started THEN StartDisablesButton ELSE FALSE

\* lines 632-669 and 678-688 start_download, single mode with the URL of one
\* file (the URL and the mode are the user's input): the worker thread runs
\* _single_download, which calls download_file.  If the thread cannot be
\* started, the controls stay as lines 664-669 set them, but for the Start
\* button.
StartSingle ==
  /\ CanPress(download_btn_disabled)
  /\ \E p \in SingleURLs, started \in BOOLEAN :
       /\ StartControls(StartButtonAfter(started))
       /\ Spawn([IdleThread EXCEPT !.kind = "single", !.pc = "reset",
                  !.path = p], started)
  /\ UNCHANGED <<fs, rangeOK, call, ret, manifest, state_file, pending_files, audit, cancel_flag, popup_open, clock>>

\* lines 632-677 and 686-688 start_download, batch mode with a directory
\* URL: the thread runs _fetch_files_and_show_selection, unless it cannot be
\* started.
StartBatch ==
  /\ CanPress(download_btn_disabled)
  /\ \E started \in BOOLEAN :
       /\ StartControls(StartButtonAfter(started))
       /\ Spawn([IdleThread EXCEPT !.kind = "fetch", !.pc = "fetch"], started)
  /\ UNCHANGED <<fs, rangeOK, call, ret, manifest, state_file, pending_files, audit, cancel_flag, popup_open, clock>>

\* lines 712-806 _show_file_selection.
ShowFileSelection ==
  /\ popup_open' = TRUE
  /\ download_btn_disabled' = FALSE
  /\ cancel_btn_disabled' = TRUE
  /\ UNCHANGED <<is_downloading, is_paused, pause_btn_disabled>>

\* lines 898-910 _download_finished.
DownloadFinished ==
  /\ download_btn_disabled' = FALSE
  /\ cancel_btn_disabled' = TRUE
  /\ pause_btn_disabled' = TRUE
  /\ is_downloading' = FALSE
  /\ is_paused' = FALSE
  /\ UNCHANGED popup_open

\* The controller runs the next scheduled event.
ClockTick ==
  /\ clock # <<>>
  /\ clock' = Tail(clock)
  /\ IF Head(clock).type = "show" THEN ShowFileSelection ELSE DownloadFinished
  /\ UNCHANGED <<fs, rangeOK, call, ret, manifest, state_file, pending_files, audit, cancel_flag, pause_flag, th>>

\* lines 797-802: the popup is created with the default auto_dismiss, a touch
\* outside it closes it.
DismissPopup ==
  /\ popup_open
  /\ popup_open' = FALSE
  /\ UNCHANGED <<fs, rangeOK, call, ret, manifest, state_file, pending_files, audit, cancel_flag, pause_flag, is_downloading, is_paused,
                 download_btn_disabled, pause_btn_disabled, cancel_btn_disabled,
                 clock, th>>

\* The non-empty selections of the listed files, in listing order.
RECURSIVE Select(_, _)
Select(files, keep) ==
  IF files = <<>> THEN <<>>
  ELSE IF Head(files) \in keep THEN <<Head(files)>> \o Select(Tail(files), keep)
  ELSE Select(Tail(files), keep)

\* lines 813-838 _start_selected_download.  It does not call
\* save_download_state (lines 413-426), which no line of the program calls:
\* the manifest is left as it is.  If the thread cannot be started, lines
\* 837-838 log the error and leave the controls as lines 827-832 set them.
StartSelectedDownload ==
  /\ popup_open
  /\ popup_open' = FALSE
  /\ StartControls(StartDisablesButton)
  /\ \E keep \in Selections, started \in BOOLEAN :
       Spawn([IdleThread EXCEPT !.kind = "batch", !.pc = "b_loop",
                !.files = Select(Listing, keep), !.idx = 1], started)
  /\ UNCHANGED <<fs, rangeOK, call, ret, manifest, state_file, pending_files, audit, cancel_flag, clock>>

\* lines 530-545 toggle_pause.  For every thread whose pause wait it ends,
\* the history keeps the chunk the thread is holding.
TogglePause ==
  /\ CanPress(pause_btn_disabled)
  /\ is_paused' = ~is_paused
  /\ pause_flag' = ~is_paused
  /\ th' = [t \in Workers |->
              IF th[t].pc = "pause" /\ PauseBlocked /\ is_paused
                THEN [th[t] EXCEPT !.held = th[t].chunk]
                ELSE th[t]]
  /\ UNCHANGED <<fs, rangeOK, call, ret, manifest, state_file, pending_files, audit, cancel_flag, is_downloading, download_btn_disabled,
                 pause_btn_disabled, cancel_btn_disabled, popup_open, clock>>

Streaming(f) == f.pc \in {"next", "pause", "cancelchk", "write"}

\* The thread of frame f is about to run download_file or runs it, and bytes
\* of the file remain to be fetched beyond the chunk it holds.
RestToFetch(f) ==
  /\ f.pc \in {"reset", "probe", "get", "chk206", "open", "next", "pause",
               "cancelchk", "write", "sleep"}
  /\ GetSize(f.path) + Len(f.chunk) < FileSize

\* lines 912-919 cancel_download.  For every thread that is streaming, the
\* history keeps the size of its destination and its retry_count at the
\* first request.
CancelDownload ==
  /\ CanPress(cancel_btn_disabled)
  /\ cancel_flag' = TRUE
  /\ is_downloading' = FALSE
  /\ is_paused' = FALSE
  /\ pause_btn_disabled' = TRUE
  /\ th' = [t \in Workers |->
              LET f == [th[t] EXCEPT
                          !.creq = @ \/ (audit /\ RestToFetch(th[t]))] IN
              IF Streaming(th[t]) /\ ~cancel_flag
                THEN [f EXCEPT !.csize = GetSize(th[t].path)]
                ELSE f]
  /\ UNCHANGED <<fs, rangeOK, call, ret, manifest, state_file, pending_files, audit, pause_flag, download_btn_disabled,
                 cancel_btn_disabled, popup_open, clock>>

Next ==
  \/ \E t \in Workers : Worker(t)
  \/ StartSingle
  \/ StartBatch
  \/ ClockTick
  \/ DismissPopup
  \/ StartSelectedDownload
  \/ TogglePause
  \/ CancelDownload

Spec == Init /\ [][Next]_vars

\* ============================================ helper methods of HFDownloader
\* ------------------------------------------------------------------ texts
\* A text (a URL, a path) is a sequence of tokens: "/" and "?" stand for
\* themselves, every other token is a run of characters with neither.
\* str.split('?')[0]: the text before the first "?".
RECURSIVE BeforeQuery(_)
BeforeQuery(text) ==
  IF text = <<>> \/ Head(text) = "?" THEN <<>>
  ELSE <<Head(text)>> \o BeforeQuery(Tail(text))

\* The text before the first "/" and the text after it.
RECURSIVE UpToSlash(_)
UpToSlash(text) ==
  IF text = <<>> \/ Head(text) = "/" THEN <<>>
  ELSE <<Head(text)>> \o UpToSlash(Tail(text))
AfterSlash(text) == Drop(text, Len(UpToSlash(text)) + 1)

\* The segments a text has between its "/".
RECURSIVE Segments(_)
Segments(text) ==
  IF Len(UpToSlash(text)) = Len(text) THEN <<text>>
  ELSE <<UpToSlash(text)>> \o Segments(AfterSlash(text))

\* The text with the given segments.
RECURSIVE JoinSegs(_)
JoinSegs(segs) ==
  IF segs = <<>> THEN <<>>
  ELSE IF Len(segs) = 1 THEN segs[1]
  ELSE segs[1] \o <<"/">> \o JoinSegs(Tail(segs))

\* urllib.parse.unquote: the percent escapes of a token, decoded.
Decoded(token) ==
  IF token = "a%20b.bin" THEN <<"a b.bin">>
  ELSE IF token = "x%2Fy.bin" THEN <<"x", "/", "y.bin">>
  ELSE <<token>>

RECURSIVE unquote(_)
unquote(text) ==
  IF text = <<>> THEN <<>> ELSE Decoded(Head(text)) \o unquote(Tail(text))

\* os.path.basename: what follows the last "/".
basename(text) == Segments(text)[Len(Segments(text))]

\* The token ends with the characters of the host name (the patterns are
\* searched, not anchored, so any run of characters may precede the name).
EndsWithHost(token, host) ==
  token = host \/ (token = "cdn.hf-mirror.com" /\ host = "hf-mirror.com")

\* str.startswith('http')
StartsWithHttp(text) == text # <<>> /\ Head(text) \in {"http:", "https:"}

\* ----------------------------------------------------------- parse_hf_url
\* lines 73-76 and 92-97: the patterns, in the order of their lists; each is
\*   <host>/([^/]+)/([^/]+)/<word>/([^/]+)
\* followed by (?:/(.*))? in a tree pattern and by /(.+) in a file pattern.
tree_patterns ==
  << [host |-> "hf-mirror.com", word |-> "tree", path |-> FALSE],
     [host |-> "huggingface.co", word |-> "tree", path |-> FALSE] >>

file_patterns ==
  << [host |-> "hf-mirror.com", word |-> "resolve", path |-> TRUE],
     [host |-> "hf-mirror.com", word |-> "blob", path |-> TRUE],
     [host |-> "huggingface.co", word |-> "resolve", path |-> TRUE],
     [host |-> "huggingface.co", word |-> "blob", path |-> TRUE] >>

\* The pattern matches the text of the segments, the host name ending
\* segment i.
MatchAt(pattern, segs, i) ==
  /\ i + 4 <= Len(segs)
  /\ segs[i] # <<>> /\ EndsWithHost(Last(segs[i]), pattern.host)
  /\ segs[i + 1] # <<>>
  /\ segs[i + 2] # <<>>
  /\ segs[i + 3] = <<pattern.word>>
  /\ segs[i + 4] # <<>>
  /\ pattern.path => JoinSegs(SubSeq(segs, i + 5, Len(segs))) # <<>>

\* re.search: the leftmost match (0: none) and its groups.
re_search(pattern, segs) ==
  IF \E i \in 1..Len(segs) : MatchAt(pattern, segs, i)
    THEN CHOOSE i \in 1..Len(segs) :
           /\ MatchAt(pattern, segs, i)
           /\ \A j \in 1..(i - 1) : ~MatchAt(pattern, segs, j)
    ELSE 0

groups(segs, i) ==
  [username |-> segs[i + 1], model |-> segs[i + 2], branch |-> segs[i + 4],
   rest |-> IF i + 4 < Len(segs)
              THEN JoinSegs(SubSeq(segs, i + 5, Len(segs))) ELSE None]

\* The first pattern of the list that matches (0: none).
FirstMatching(patterns, segs) ==
  IF \E k \in 1..Len(patterns) : re_search(patterns[k], segs) # 0
    THEN CHOOSE k \in 1..Len(patterns) :
           /\ re_search(patterns[k], segs) # 0
           /\ \A j \in 1..(k - 1) : re_search(patterns[j], segs) = 0
    ELSE 0

\* Faulty variant of MirrorHost: the download stays on the host of the URL.
MirrorHostKeeps(pattern) == pattern.host

\* line 103: the download URL is on the mirror, whatever pattern matched.
MirrorHost(pattern) == "hf-mirror.com"

\* lines 78-89: the result for a directory URL.
TreeResult(segs) ==
  LET k == FirstMatching(tree_patterns, segs)
      g == groups(segs, re_search(tree_patterns[k], segs)) IN
  [download_url |-> None, filename |-> None, is_directory |-> TRUE,
   repo_info |-> [username |-> g.username, model |-> g.model,
                  branch |-> g.branch,
                  subpath |-> IF g.rest = None THEN <<>> ELSE g.rest]]

\* lines 99-105: the result for a file URL.
FileResult(segs) ==
  LET k == FirstMatching(file_patterns, segs)
      g == groups(segs, re_search(file_patterns[k], segs)) IN
  [download_url |->
     <<"https:", "/", "/", MirrorHost(file_patterns[k]), "/">> \o g.username
       \o <<"/">> \o g.model \o <<"/", "resolve", "/">> \o g.branch
       \o <<"/">> \o g.rest,
   filename |-> basename(unquote(g.rest)),
   is_directory |-> FALSE, repo_info |-> None]

\* urlparse(url).path for a URL with a scheme: what follows the host.
UrlPath(text) ==
  IF Len(text) >= 3 /\ text[2] = "/" /\ text[3] = "/"
    THEN Drop(Drop(text, 3), Len(UpToSlash(Drop(text, 3))))
    ELSE Drop(text, 1)

\* lines 107-113: any other URL.
OtherResult(text) ==
  IF StartsWithHttp(text)
    THEN [download_url |-> text,
          filename |-> IF basename(unquote(UrlPath(text))) = <<>>
                         THEN <<"downloaded_file">>
                         ELSE basename(unquote(UrlPath(text))),
          is_directory |-> FALSE, repo_info |-> None]
    ELSE [download_url |-> None, filename |-> None, is_directory |-> FALSE,
          repo_info |-> None]

\* Faulty variant of TreePatternsFirst: the file patterns are tried first.
FilePatternsFirst == FALSE

\* lines 78 and 99: the loop over tree_patterns comes before the loop over
\* file_patterns.
TreePatternsFirst == TRUE

\* lines 68-113 parse_hf_url.
parse_hf_url(url) ==
  LET text == BeforeQuery(url)
      segs == Segments(text)
      tree == FirstMatching(tree_patterns, segs) # 0
      file == FirstMatching(file_patterns, segs) # 0 IN
  IF tree /\ (TreePatternsFirst \/ ~file) THEN TreeResult(segs)
  ELSE IF file THEN FileResult(segs)
  ELSE OtherResult(text)

\* The URLs a user may enter.  A block is the text
\* <host>/<owner>/<model>/<word> and a tail; a URL is an optional scheme,
\* one block or two (the second then lies in the path of the first), and an
\* optional query.
Hosts == {"hf-mirror.com", "huggingface.co", "cdn.hf-mirror.com", "example.com"}
Words == {"tree", "resolve", "blob", "raw"}
Tails ==
  { <<>>,
    << <<"main">> >>,
    << <<"main">>, <<>> >>,
    << <<"main">>, <<"f.bin">> >>,
    << <<"main">>, <<"d">>, <<"a%20b.bin">> >>,
    << <<"main">>, <<"x%2Fy.bin">> >>,
    << <<>>, <<"f.bin">> >> }
Block(host, owner, model, word, tail) ==
  << <<host>>, <<owner>>, <<model>>, <<word>> >> \o tail
Blocks1 == { Block(h, "u", "m", w, t) : h \in Hosts, w \in Words, t \in Tails }
Blocks2 == { Block(h, "v", "n", w, t) : h \in Hosts, w \in Words, t \in Tails }
Schemes == { <<>>, <<"https:", "/", "/">> }
Queries ==
  { <<>>, <<"?", "download=true">>,
    <<"?", "x=">> \o JoinSegs(Block("huggingface.co", "q", "r", "tree", << <<"main">> >>)) }
URLs ==
  { sch \o JoinSegs(b) \o q :
      sch \in Schemes, q \in Queries,
      b \in Blocks1 \cup { b1 \o b2 : b1 \in Blocks1, b2 \in Blocks2 } }

\* --------------------------------------------------------- get_repo_files
\* An entry of the listing the API returns: a JSON object that has or lacks
\* the keys 'type', 'path' and 'size'.
Entry(has_type, type, has_path, path, has_size) ==
  [has_type |-> has_type, type |-> type, has_path |-> has_path,
   path |-> path, has_size |-> has_size, size |-> IF has_size THEN FileSize ELSE 0]

Entries ==
  { Entry(TRUE, "file", TRUE, <<"f.bin">>, TRUE),
    Entry(TRUE, "file", TRUE, <<"d", "/", "g.bin">>, FALSE),
    Entry(TRUE, "directory", TRUE, <<"d">>, FALSE),
    Entry(TRUE, "directory", FALSE, <<>>, FALSE),
    Entry(TRUE, "file", FALSE, <<>>, TRUE),
    Entry(FALSE, "-", TRUE, <<"h.bin">>, TRUE) }

Listings ==
  {<<>>} \cup {<<a>> : a \in Entries} \cup {<<a, b>> : a, b \in Entries}
    \cup {<<a, b, c>> : a, b, c \in Entries}

\* requests.Session.get of the API URL: the request fails, or a response
\* comes with a status and a body that is no JSON ("invalid"), a JSON number,
\* boolean or null ("scalar"), a JSON object or string (items: the number
\* of its keys, of its characters), or a JSON list of entries (data).
RepoOutcomes ==
  { [kind |-> "exception", status |-> 0, json |-> "-", items |-> 0,
     data |-> <<>>] }
    \cup { [kind |-> "response", status |-> 404, json |-> "list", items |-> 1,
            data |-> d] :
             d \in {<<Entry(TRUE, "file", TRUE, <<"f.bin">>, TRUE)>>} }
    \cup { [kind |-> "response", status |-> 200, json |-> j, items |-> 0,
            data |-> <<>>] : j \in {"invalid", "scalar"} }
    \cup { [kind |-> "response", status |-> 200, json |-> j, items |-> n,
            data |-> <<>>] : j \in {"object", "string"}, n \in 0..1 }
    \cup { [kind |-> "response", status |-> 200, json |-> "list",
            items |-> Len(d), data |-> d] : d \in Listings }

\* line 249: item['type'] raises KeyError when the key is missing.
TypeOf(item) ==
  [raised |-> ~item.has_type, value |-> IF item.has_type THEN item.type ELSE "-"]

\* lines 237-239 and 252: the URLs built from the coordinates.
ApiUrl(username, model, branch, subpath) ==
  <<"https:", "/", "/", "hf-mirror.com", "/", "api", "/", "models", "/">>
    \o username \o <<"/">> \o model \o <<"/", "tree", "/">> \o branch
    \o (IF subpath # <<>> THEN <<"/">> \o subpath ELSE <<>>)
ResolveUrl(username, model, branch, relative_path) ==
  <<"https:", "/", "/", "hf-mirror.com", "/">> \o username \o <<"/">> \o model
    \o <<"/", "resolve", "/">> \o branch \o <<"/">> \o relative_path

\* lines 248-253: the loop over the entries; an exception leaves it.
RECURSIVE Collect(_, _, _)
Collect(data, c, files_info) ==
  IF data = <<>> THEN [raised |-> FALSE, files |-> files_info]
  ELSE LET item == Head(data) IN
       IF TypeOf(item).raised THEN [raised |-> TRUE, files |-> files_info]
       ELSE IF TypeOf(item).value # "file" THEN Collect(Tail(data), c, files_info)
       ELSE IF ~item.has_path THEN [raised |-> TRUE, files |-> files_info]
       ELSE Collect(Tail(data), c,
                    Append(files_info,
                           <<item.path,
                             ResolveUrl(c.username, c.model, c.branch, item.path),
                             IF item.has_size THEN item.size ELSE 0>>))

\* lines 234-257 get_repo_files: the list of files (ok), or None.
\* response.json() raises on a body that is no JSON; the for loop of line
\* 248 raises on a value that cannot be iterated; over an object or a string
\* it takes the keys or the characters, which are strings, so item['type']
\* raises at the first of them, and with none of them the loop body never
\* runs and the empty list is returned.
RepoNone == [ok |-> FALSE, files |-> <<>>]
get_repo_files(c, o) ==
  IF o.kind = "exception" THEN RepoNone
  ELSE IF o.status # 200 THEN RepoNone
  ELSE IF o.json \in {"invalid", "scalar"} THEN RepoNone
  ELSE IF o.json \in {"object", "string"}
    THEN IF o.items = 0 THEN [ok |-> TRUE, files |-> <<>>] ELSE RepoNone
  ELSE IF Collect(o.data, c, <<>>).raised THEN RepoNone
  ELSE [ok |-> TRUE, files |-> Collect(o.data, c, <<>>).files]

\* The coordinates a directory URL gives.
Coordinates ==
  [username : {<<"u">>}, model : {<<"m">>}, branch : {<<"main">>},
   subpath : {<<>>, <<"d">>}]

\* The program with the history of cancel requests and failed transfers
\* kept in the frames: the same initial states and the same steps.
InitAudit ==
  /\ call = NoCall
  /\ ret = NoCall
  /\ manifest = NoManifest
  /\ state_file = None
  /\ pending_files = <<>>
  /\ audit = TRUE
  /\ fs \in InitFiles
  /\ rangeOK \in BOOLEAN
  /\ cancel_flag = FALSE
  /\ pause_flag = FALSE
  /\ is_downloading = FALSE
  /\ is_paused = FALSE
  /\ download_btn_disabled = FALSE
  /\ pause_btn_disabled = TRUE
  /\ cancel_btn_disabled = TRUE
  /\ popup_open = FALSE
  /\ clock = <<>>
  /\ th = [t \in Workers |-> IdleThread]

SpecAudit == InitAudit /\ [][Next]_vars

\* ------------------------------------------------------- the helper calls
\* The application as it starts, for the behaviours that follow one call of
\* a helper method: the call is made with one of its inputs and returns.
InitHelpers ==
  /\ call \in [fn : {"parse_hf_url"}, url : URLs]
               \cup [fn : {"get_repo_files"}, repo_info : Coordinates,
                     outcome : RepoOutcomes]
  /\ ret = NoCall
  /\ manifest = NoManifest
  /\ state_file = None
  /\ pending_files = <<>>
  /\ audit = FALSE
  /\ fs = CHOOSE f \in InitFiles : TRUE
  /\ rangeOK = TRUE
  /\ cancel_flag = FALSE
  /\ pause_flag = FALSE
  /\ is_downloading = FALSE
  /\ is_paused = FALSE
  /\ download_btn_disabled = FALSE
  /\ pause_btn_disabled = TRUE
  /\ cancel_btn_disabled = TRUE
  /\ popup_open = FALSE
  /\ clock = <<>>
  /\ th = [t \in Workers |-> IdleThread]

app == <<fs, rangeOK, cancel_flag, pause_flag, ui, clock, th, manifest,
         state_file, pending_files, audit>>

\* line 647: start_download parses the URL the user entered.
ParseHfUrl ==
  /\ call.fn = "parse_hf_url" /\ ret = NoCall
  /\ ret' = [fn |-> call.fn, val |-> parse_hf_url(call.url)]
  /\ UNCHANGED <<call, app>>

\* lines 693-698: _fetch_files_and_show_selection asks for the listing.
GetRepoFiles ==
  /\ call.fn = "get_repo_files" /\ ret = NoCall
  /\ ret' = [fn |-> call.fn,
             api_url |-> ApiUrl(call.repo_info.username, call.repo_info.model,
                                call.repo_info.branch, call.repo_info.subpath),
             val |-> get_repo_files(call.repo_info, call.outcome)]
  /\ UNCHANGED <<call, app>>

NextHelpers ==
  \/ ParseHfUrl
  \/ GetRepoFiles

SpecHelpers == InitHelpers /\ [][NextHelpers]_vars

\* ------------------------------------------------- the download manifest
\* lines 403-481: the methods of HFDownloaderApp that keep the manifest of a
\* batch.  No line of the program calls them (Next has none of them); the
\* behaviours below are those of a caller that does, one call after another,
\* with call and ret holding the last call and what it returned or showed.

\* The texts of path_input and of the save_dir argument, the texts of
\* url_input, and the file lists handed to save_download_state.
SaveDirs == {"", "dir"}
UrlTexts == {"", "u"}
ManifestLists == {<<>>} \cup {Select(Listing, keep) : keep \in Selections}

\* load_download_state returning None.
NoState == [ok |-> FALSE, files |-> <<>>, save_dir |-> "", url |-> ""]

\* line 409: os.path.join(save_dir, '.hf_download_state.json')
StateFilePath(save_dir) == <<save_dir, "/", ".hf_download_state.json">>

InitManifest ==
  /\ call = NoCall
  /\ ret = NoCall
  /\ manifest = NoManifest
  /\ state_file = None
  /\ pending_files = <<>>
  /\ audit = FALSE
  /\ fs \in InitFiles
  /\ rangeOK = TRUE
  /\ cancel_flag = FALSE
  /\ pause_flag = FALSE
  /\ is_downloading = FALSE
  /\ is_paused = FALSE
  /\ download_btn_disabled = FALSE
  /\ pause_btn_disabled = TRUE
  /\ cancel_btn_disabled = TRUE
  /\ popup_open = FALSE
  /\ clock = <<>>
  /\ th = [t \in Workers |-> IdleThread]

disk == <<fs, rangeOK, cancel_flag, pause_flag, ui, clock, th, audit>>

\* lines 403-411 init_state_file: with a save directory entered, the
\* directory is made and state_file is set; if making it raises, state_file
\* becomes None.
InitStateFile ==
  \E text \in SaveDirs, raises \in BOOLEAN :
    /\ raises => text # ""
    /\ state_file' = IF text = "" THEN state_file
                     ELSE IF raises THEN None
                     ELSE StateFilePath(text)
    /\ call' = [fn |-> "init_state_file", text |-> text]
    /\ ret' = [fn |-> "init_state_file", val |-> None]
    /\ UNCHANGED <<manifest, pending_files, disk>>

\* lines 413-426 save_download_state: nothing without a state_file;
\* otherwise the file is opened for writing (truncated) and the state is
\* dumped to it.  An exception is swallowed: the open failed (the file is as
\* it was) or the dump failed (the file is there and holds no JSON value).
SaveDownloadState ==
  \E files \in ManifestLists, save_dir \in SaveDirs, url \in UrlTexts,
     outcome \in {"ok", "open_raises", "dump_raises"} :
    /\ manifest' =
         IF state_file = None \/ outcome = "open_raises" THEN manifest
         ELSE IF outcome = "dump_raises"
           THEN [NoManifest EXCEPT !.written = TRUE]
         ELSE [written |-> TRUE, valid |-> TRUE, files |-> files,
               save_dir |-> save_dir, url |-> url]
    /\ call' = [fn |-> "save_download_state", files |-> files,
                save_dir |-> save_dir, url |-> url]
    /\ ret' = [fn |-> "save_download_state", val |-> None]
    /\ UNCHANGED <<state_file, pending_files, disk>>

\* lines 428-436 load_download_state: None without a state_file or without
\* the file, and None when reading or parsing raises; otherwise the state
\* that was written.
load_download_state(readable) ==
  IF state_file = None \/ ~manifest.written THEN NoState
  ELSE IF manifest.valid /\ readable
    THEN [ok |-> TRUE, files |-> manifest.files,
          save_dir |-> manifest.save_dir, url |-> manifest.url]
  ELSE NoState

LoadDownloadState ==
  \E readable \in BOOLEAN :
    /\ call' = [fn |-> "load_download_state"]
    /\ ret' = [fn |-> "load_download_state",
               val |-> load_download_state(readable)]
    /\ UNCHANGED <<manifest, state_file, pending_files, disk>>

\* lines 438-444 clear_download_state: the file of state_file, if there, is
\* removed; an exception of the removal is swallowed.
ClearDownloadState ==
  \E removed \in BOOLEAN :
    /\ manifest' = IF state_file # None /\ manifest.written /\ removed
                     THEN NoManifest ELSE manifest
    /\ call' = [fn |-> "clear_download_state"]
    /\ ret' = [fn |-> "clear_download_state", val |-> None]
    /\ UNCHANGED <<state_file, pending_files, disk>>

\* lines 460-471: the files of the list that are absent from the save
\* directory or smaller than their declared size.
Pending(files) ==
  SelectSeq(files, LAMBDA p : ~Exists(p) \/ GetSize(p) < FileSize)

\* lines 446-481 check_pending_downloads: with a state loaded that has files
\* and a save directory, and some of the files pending, pending_files is
\* set, the URL of the state, unless it is empty, is assigned to the text
\* of url_input (line 476; url_input holds the texts assigned, none when
\* the text is kept), and two lines are logged.
CheckPendingDownloads ==
  \E readable \in BOOLEAN :
    LET state == load_download_state(readable)
        found == IF ~state.ok THEN <<>>
                 ELSE IF state.files = <<>> \/ state.save_dir = "" THEN <<>>
                 ELSE Pending(state.files) IN
    /\ pending_files' = IF found # <<>> THEN found ELSE pending_files
    /\ call' = [fn |-> "check_pending_downloads"]
    /\ ret' = IF found = <<>>
                THEN [fn |-> "check_pending_downloads", val |-> None]
                ELSE [fn |-> "check_pending_downloads", val |-> None,
                      url_input |-> IF state.url # "" THEN <<state.url>>
                                    ELSE <<>>,
                      logged |-> <<<<"Found", Len(found), "pending">>,
                                   <<"Click Start to resume">> >>]
    /\ UNCHANGED <<manifest, state_file, disk>>

NextManifest ==
  \/ InitStateFile
  \/ SaveDownloadState
  \/ LoadDownloadState
  \/ ClearDownloadState
  \/ CheckPendingDownloads

SpecManifest == InitManifest /\ [][NextManifest]_vars

\* The manifest methods agree with one another: what check_pending_downloads
\* leaves in pending_files is a list of files that are not whole on disk,
\* and load_download_state returns the state that is on disk or None.
ManifestConsistent ==
  /\ \A k \in 1..Len(pending_files) :
       ~Exists(pending_files[k]) \/ GetSize(pending_files[k]) < FileSize
  /\ (ret.fn = "load_download_state" /\ ret.val.ok =>
        /\ state_file # None /\ manifest.valid
        /\ ret.val.files = manifest.files)

\* A state the manifest methods reach: a manifest of the whole listing was
\* written, and check_pending_downloads found its incomplete files.
ManifestResumeFound ==
  /\ manifest.valid /\ manifest.files = Listing
  /\ pending_files = <<"B", "C">>
  /\ ret.fn = "check_pending_downloads"

\* ================================================================ claims
\* The thread is inside a download_file invocation, past the reset of the
\* flags.
InCall(f) ==
  f.pc \in {"probe", "get", "chk206", "open", "next", "pause", "cancelchk",
            "write", "sleep", "ret"}
Returned(f) == f.pc = "ret"
Terminal(f) == IF f.statuses = <<>> THEN "-" ELSE Last(f.statuses)
\* The invocation of frame f was ended by an exception that is not a
\* network failure (lines 227-230), whether or not its status arrived.
OtherRaised(f) == f.exc = "other"

\* C1  Resume correctness.  For an invocation that found the first K bytes of
\* the remote content at the destination (0 < K < FileSize) on a server that
\* honours range requests: the first GET asks for bytes K-, the attempt that
\* streams its 206 response keeps the K bytes (the file is appended to), and
\* whenever the invocation returns True the destination holds exactly the
\* remote content, retries included.
C1_ResumeCorrect ==
  \A t \in Workers :
    LET f == th[t] IN
    (InCall(f) /\ rangeOK /\ f.start > 0 /\ f.start < FileSize) =>
      /\ f.firstRange \in {-2, f.start}
      /\ (f.attempts = 1 /\ Streaming(f) /\ f.status_code = 206 =>
            /\ Len(fs[f.path].data) >= f.start
            /\ IsPrefix(fs[f.path].data, Remote))
      /\ (Returned(f) /\ f.result => fs[f.path].data = Remote)

\* C1 witness: a resumed transfer that met a transient failure, retried and
\* returned True with the whole content.
C1_Witness ==
  \E t \in Workers :
    LET f == th[t] IN
    /\ Returned(f) /\ f.result /\ rangeOK
    /\ f.start > 0 /\ f.start < FileSize
    /\ f.firstRange = f.start
    /\ f.retry_count >= 1
    /\ fs[f.path].data = Remote

\* C2  Retry bound.  An invocation starts at most MaxRetries attempts.  It
\* ends with "Network failed" exactly when MaxRetries transient failures
\* occurred (retry_count counts them), and then it returns False after
\* exactly MaxRetries attempts; with fewer failures it never gives up for
\* the network, and a transfer that met two failures and then ran to the end
\* of the stream returns True after three attempts.
C2_RetryBound ==
  \A t \in Workers :
    LET f == th[t] IN
    InCall(f) =>
      /\ f.attempts <= MaxRetries
      /\ f.retry_count <= MaxRetries
      /\ (Returned(f) =>
            /\ (Terminal(f) = "Network failed" <=> f.retry_count = MaxRetries)
            /\ (f.retry_count = MaxRetries =>
                  ~f.result /\ f.attempts = MaxRetries)
            /\ (f.result => f.attempts <= MaxRetries)
            /\ (f.retry_count = MaxRetries - 1
                  /\ Terminal(f) \notin {"Cancelled", "HTTP"}
                  /\ ~OtherRaised(f)
                  => f.result /\ f.attempts = MaxRetries))

\* C2 witness: two drops, then the third attempt succeeds.
C2_Witness ==
  \E t \in Workers :
    LET f == th[t] IN
    /\ Returned(f) /\ f.result /\ Terminal(f) = "Done!"
    /\ f.retry_count = MaxRetries - 1 /\ f.attempts = MaxRetries

\* C3 as claimed: whenever cancel_flag is set while the invocation streams
\* chunks, at most one further chunk is written, and the invocation reports
\* "Cancelled", returns False and leaves the file in place with a size
\* between its size at the request and the total.
C3_AsClaimed ==
  \A t \in Workers :
    LET f == th[t] IN
    (InCall(f) /\ f.csize >= 0) =>
      /\ f.cwrites <= 1
      /\ (Returned(f) =>
            /\ Terminal(f) = "Cancelled" /\ ~f.result
            /\ Exists(f.path)
            /\ f.csize <= GetSize(f.path) /\ GetSize(f.path) <= FileSize)

\* C4  Idempotence shortcut.  An invocation that found a destination of the
\* probed size FileSize is already over once the probe is done: it returned
\* True with the single status "File exists" and one progress report of the
\* full size, started no attempt (no GET) and left the file as it was; this
\* holds for every invocation, so also for a repeated one.
C4_Shortcut ==
  \A t \in Workers :
    LET f == th[t] IN
    (InCall(f) /\ f.pc # "probe" /\ f.start = FileSize /\ f.total_size = FileSize) =>
      /\ Returned(f) /\ f.result
      /\ f.statuses = <<"File exists">>
      /\ f.progress = FileSize
      /\ f.attempts = 0 /\ f.firstRange = -2
      /\ fs[f.path] = [exists |-> TRUE, data |-> Remote]

\* C4 witness: the shortcut taken in single mode on B, a file that an
\* earlier invocation had to complete, and in which nothing was requested.
C4_Witness ==
  \E t \in Workers :
    LET f == th[t] IN
    /\ f.kind = "single" /\ Returned(f) /\ f.result
    /\ Terminal(f) = "File exists" /\ f.attempts = 0
    /\ f.start = FileSize /\ fs[f.path].data = Remote

\* The thread is executing download_file.
InTransfer(f) == f.pc = "reset" \/ (InCall(f) /\ ~Returned(f))

\* C5  One worker at a time.  At most one thread is alive, so at most one
\* executes a transfer and no destination has two writers; a batch thread
\* that executes a transfer is at the file of its position in the list,
\* which it has classified as a file to resume or to fetch.
C5_OneWorker ==
  /\ Cardinality({t \in Workers : th[t].kind # "none"}) <= 1
  /\ \A t, u \in Workers :
       (t # u /\ InTransfer(th[t]) /\ InTransfer(th[u])) => th[t].path # th[u].path
  /\ \A t \in Workers :
       (th[t].kind = "batch" /\ (InTransfer(th[t]) \/ Returned(th[t]))) =>
         /\ th[t].idx \in 1..Len(th[t].files)
         /\ th[t].path = th[t].files[th[t].idx]
         /\ th[t].cls \in {"resume", "fresh"}

\* C5 witness: a batch thread writes a chunk of the second file of its list
\* while the Start button is disabled and no other thread is alive.
C5_Witness ==
  \E t \in Workers :
    /\ th[t].kind = "batch" /\ th[t].pc = "write" /\ th[t].idx = 2
    /\ download_btn_disabled
    /\ \A u \in Workers \ {t} : th[u].kind = "none"

\* Single mode alone: downloads of one file URL, with the controller's
\* Pause and Cancel.  Every thread that can take a step eventually takes one:
\* the scheduler starves no thread, and every network request completes or
\* fails.
SingleWorker(t) == DownloadFile(t) \/ SgFinish(t)

NextSingle ==
  \/ \E t \in Workers : SingleWorker(t)
  \/ StartSingle
  \/ ClockTick
  \/ TogglePause
  \/ CancelDownload

FairSingle ==
  Init /\ [][NextSingle]_vars /\ \A t \in Workers : WF_vars(SingleWorker(t))

\* Status s is among those the invocation of frame f has reported.
Reported(f, s) == \E k \in 1..Len(f.statuses) : f.statuses[k] = s

\* C6  Cancel unblocks the pause wait.  A thread blocked in the pause wait
\* with pause_flag set, once cancel_flag is set too, reaches the Cancelled
\* outcome (it reports 'Cancelled') and returns False, pause_flag still
\* being set.
C6_CancelUnblocksPause ==
  \A t \in Workers :
    (th[t].pc = "pause" /\ pause_flag /\ cancel_flag)
      ~> (/\ Returned(th[t]) /\ Reported(th[t], "Cancelled") /\ ~th[t].result
          /\ pause_flag)

\* C6 witness: the call has returned False with "Cancelled" while pause_flag
\* is still set.
C6_Witness ==
  \E t \in Workers :
    /\ Returned(th[t]) /\ Terminal(th[t]) = "Cancelled" /\ ~th[t].result
    /\ pause_flag /\ cancel_flag

\* The step belongs to one download_file invocation of thread t.
SameCall(t) == InCall(th[t]) /\ InCall(th'[t])

\* C7 as claimed: within an invocation the byte count of a progress report
\* is never lower than that of the report before it.
C7_AsClaimed ==
  [][\A t \in Workers :
       SameCall(t) => th'[t].progress >= th[t].progress]_vars

\* C7  Progress order, amended.  Within an invocation every progress report
\* carries a byte count above zero and at most the content's size plus what
\* the destination held; the count of a report is lower than that of the
\* report before it only when, after a transient failure, the attempt writes
\* its first chunk at offset 0 (the file is rewritten from the start: the
\* range request was not honoured, or the file was found empty), and a report
\* that carries the same count as the one before it comes from such an
\* attempt too.
C7_ProgressOrder ==
  [][\A t \in Workers :
       SameCall(t) =>
         /\ (th'[t].progress # th[t].progress =>
               /\ th[t].pc \in {"probe", "write"}
               /\ th'[t].progress > 0)
         /\ (th'[t].progress < th[t].progress =>
               /\ th[t].pc = "write"
               /\ th[t].downloaded_size = 0
               /\ th[t].retry_count > 0)
         /\ (th[t].pc = "write" /\ th'[t].pc = "next"
               /\ th[t].total_size > 0 /\ th[t].downloaded_size > 0 =>
               th'[t].progress > th[t].progress)]_vars

\* C7 witness: a resumed transfer on a server without range support, whose
\* first attempt was interrupted; the retry rewrote the file from offset 0
\* and the last report carries the whole size.
C7_Witness ==
  \E t \in Workers :
    LET f == th[t] IN
    /\ Returned(f) /\ f.result /\ Terminal(f) = "Done!"
    /\ f.retry_count >= 1 /\ f.start > 0 /\ f.status_code = 200
    /\ f.total_size = FileSize /\ f.progress = FileSize

\* The thread runs _download_selected_files and is inside its call of
\* download_file for the file of its position.
BatchCall(f) == f.kind = "batch" /\ InCall(f)

\* C8  Batch skip logic.  The batch takes the files in listing order.  A
\* file is handed to download_file only after the log line "resume" or
\* "fresh": "resume" exactly when the destination held K bytes with
\* 0 < K < FileSize, and then the first GET asks for bytes K-; "fresh" exactly
\* when the destination was absent or empty, and then the first GET carries
\* no Range header and a True result leaves the whole content.  A file whose
\* local size is at least the declared size is never handed over: it gets
\* the line "skip" and the loop moves on, the file holding the whole
\* content.  The three lines always reach the log.
C8_BatchSkipLogic ==
  \A t \in Workers :
    LET f == th[t] IN
    /\ (f.kind = "batch" =>
          /\ (f.cls = "skip" =>
                /\ f.pc = "b_loop" /\ f.idx >= 2
                /\ fs[f.files[f.idx - 1]] = [exists |-> TRUE, data |-> Remote])
          /\ (f.cls \in {"skip", "resume", "fresh"} => f.blog = <<f.cls>>)
          /\ \A i, j \in 1..Len(f.files) :
               i < j => \E m, n \in 1..Len(Listing) :
                          m < n /\ Listing[m] = f.files[i] /\ Listing[n] = f.files[j])
    /\ (BatchCall(f) =>
          /\ f.path = f.files[f.idx]
          /\ f.cls \in {"resume", "fresh"}
          /\ f.start < FileSize
          /\ (f.cls = "resume" <=> f.start > 0)
          /\ (f.cls = "resume" =>
                f.existing_size = f.start /\ f.firstRange \in {-2, f.start})
          /\ (f.cls = "fresh" =>
                /\ f.existing_size = 0 /\ f.start \in {-1, 0}
                /\ f.firstRange \in {-2, -1}
                /\ (Returned(f) /\ f.result => fs[f.path].data = Remote)))

\* C8 witness: the batch over A, B and C has come to its third file, found
\* it absent, logged "fresh" and fetched it in full without a Range header;
\* every file of the list holds the whole content.
C8_Witness ==
  \E t \in Workers :
    LET f == th[t] IN
    /\ BatchCall(f) /\ f.files = Listing /\ f.idx = 3
    /\ f.cls = "fresh" /\ f.blog = <<"fresh">>
    /\ f.start = -1 /\ f.firstRange = -1
    /\ Returned(f) /\ f.result
    /\ \A p \in Paths : fs[p] = [exists |-> TRUE, data |-> Remote]

\* The response held by the thread has a status other than 200 and 206.
BadStatus(f) == f.status_code \notin {200, 206}

\* The invocation ends at once with the HTTP status as terminal failure:
\* g is f returned False with status "HTTP", no attempt and no retry added.
HttpFailure(f, g) ==
  /\ Returned(g) /\ ~g.result
  /\ g.statuses = Append(f.statuses, "HTTP")
  /\ g.retry_count = f.retry_count /\ g.attempts = f.attempts
  /\ g.status_code = f.status_code

\* The response goes on to the status check as it is: no further GET.
ToStatusCheck(f, g) ==
  g = [f EXCEPT !.pc = "open"]

\* C9 as claimed: every response to the GET of an attempt whose status is
\* neither 200 nor 206 reaches the status check, and the invocation then
\* returns False with the HTTP status, without a retry or a further GET.
C9_AsClaimed ==
  [][\A t \in Workers :
       LET f == th[t]
           g == th'[t] IN
       (BadStatus(f) /\ g # f) =>
         /\ (f.pc = "chk206" => ToStatusCheck(f, g))
         /\ (f.pc = "open" => HttpFailure(f, g)
                                /\ fs'[f.path] = fs[f.path])]_vars

\* C9  HTTP error status, amended.  The response that reaches the status
\* check (the response to the GET of the attempt when no range was asked
\* for, that is with downloaded_size = 0; else the response to the fallback
\* GET) is a terminal failure when its status is neither 200 nor 206:
\* download_file reports the HTTP status and returns False, the retry counter
\* is not consumed, no further GET follows and the file is not touched.  A
\* ranged GET answered with such a status is followed by the fallback GET.
C9_HttpStatusTerminal ==
  [][\A t \in Workers :
       LET f == th[t]
           g == th'[t] IN
       (BadStatus(f) /\ g # f) =>
         /\ (f.pc = "chk206" /\ f.downloaded_size = 0 => ToStatusCheck(f, g))
         /\ (f.pc = "chk206" /\ f.downloaded_size > 0 =>
               /\ ~ToStatusCheck(f, g)
               /\ g.attempts = f.attempts)
         /\ (f.pc = "open" => HttpFailure(f, g)
                                /\ fs'[f.path] = fs[f.path])]_vars

\* C9 witness: after one transient failure the retry was answered with an
\* error status; the invocation returned False with the HTTP status, the
\* retry counter still at one.
C9_Witness ==
  \E t \in Workers :
    LET f == th[t] IN
    /\ Returned(f) /\ ~f.result /\ Terminal(f) = "HTTP"
    /\ BadStatus(f)
    /\ f.retry_count = 1 /\ f.attempts = 2

\* The thread runs _download_selected_files and is at the head of its loop.
AtLoopHead(f) == f.kind = "batch" /\ f.pc = "b_loop"

\* C10  Batch cancellation.  The batch looks at is_downloading at the head
\* of the loop, before each file.  When it finds it cleared, the thread ends
\* there: no later file of the list is classified or handed to
\* download_file, and _download_finished is scheduled once, by that step.
\* A download_file call is entered only from a loop head that found
\* is_downloading set, and a batch thread that goes on schedules nothing, so
\* the notification is issued exactly once per batch, at its end.
C10_BatchStops ==
  [][\A t \in Workers :
       LET f == th[t]
           g == th'[t] IN
       /\ (AtLoopHead(f) /\ g # f =>
             IF is_downloading /\ f.idx <= Len(f.files)
               THEN /\ g.kind = "batch" /\ g.files = f.files
                    /\ g.idx \in {f.idx, f.idx + 1}
                    /\ g.cls \in {"patherr", "skip", "resume", "fresh"}
                    /\ (g.idx = f.idx <=> g.pc = "reset")
                    /\ clock' = clock
               ELSE /\ g = IdleThread
                    /\ clock' = Append(clock, [Finished(TRUE) EXCEPT
                                                !.rest = Len(f.files) + 1 - f.idx]))
       /\ (f.kind = "batch" /\ g.kind = "batch" => Len(clock') <= Len(clock))
       /\ (f.kind = "batch" /\ g.kind # "batch" => AtLoopHead(f))
       /\ (g.kind = "batch" /\ g.pc = "reset" /\ f.pc # "reset" =>
             AtLoopHead(f) /\ is_downloading)]_vars

\* C10 witness: a batch thread stopped at the head of its loop with two
\* files of its list not reached, Cancel having cleared is_downloading; C
\* was not fetched, the notification is the only event in the queue and no
\* thread is left.
C10_Witness ==
  /\ ~is_downloading /\ cancel_flag
  /\ Len(clock) = 1
  /\ clock[1].type = "finished" /\ clock[1].success /\ clock[1].rest = 2
  /\ \A t \in Workers : th[t].kind = "none"
  /\ ~fs["C"].exists

ParseReturned == call.fn = "parse_hf_url" /\ ret # NoCall

\* The segments of the URL before its query.
UrlSegs == Segments(BeforeQuery(call.url))

\* The pairs <<k, i>> such that pattern k of the list matches at segment i.
Matches(patterns, segs) ==
  { m \in (1..Len(patterns)) \X (1..Len(segs)) :
      MatchAt(patterns[m[1]], segs, m[2]) }

\* C12  Directory URLs.  A URL that matches a '/tree/' pattern on a
\* recognised host is never classified as a single file, also when it
\* matches a '/resolve/' or '/blob/' pattern too: the result has
\* is_directory = True, no download URL, no filename, and the coordinates
\* owner, name, branch and subpath of a '/tree/' match, the subpath being ''
\* when the URL has none.
C12_DirectoryFirst ==
  (ParseReturned /\ Matches(tree_patterns, UrlSegs) # {}) =>
    /\ ret.val.is_directory
    /\ ret.val.download_url = None /\ ret.val.filename = None
    /\ \E m \in Matches(tree_patterns, UrlSegs) :
         LET i == m[2] IN
         ret.val.repo_info =
           [username |-> UrlSegs[i + 1], model |-> UrlSegs[i + 2],
            branch |-> UrlSegs[i + 4],
            subpath |-> JoinSegs(SubSeq(UrlSegs, i + 5, Len(UrlSegs)))]

\* C12 witness: a URL that matches a file pattern and a tree pattern was
\* parsed as a directory without subpath.
C12_Witness ==
  /\ ParseReturned
  /\ Matches(tree_patterns, UrlSegs) # {}
  /\ Matches(file_patterns, UrlSegs) # {}
  /\ ret.val.is_directory /\ ret.val.repo_info.subpath = <<>>

\* The result is that of a single file: a download URL on the mirror host
\* in '/resolve/' form with the coordinates and the path of a match of a
\* file pattern, and as filename the final segment of the percent-decoded
\* path.
FileOutcome ==
  /\ ~ret.val.is_directory /\ ret.val.repo_info = None
  /\ \E m \in Matches(file_patterns, UrlSegs) :
       LET i == m[2] IN
       ret.val.download_url =
         <<"https:", "/", "/", "hf-mirror.com", "/">>
           \o JoinSegs(<<UrlSegs[i + 1], UrlSegs[i + 2], <<"resolve">>,
                         UrlSegs[i + 4]>>
                       \o SubSeq(UrlSegs, i + 5, Len(UrlSegs)))
  /\ ret.val.filename = Last(Segments(unquote(Last(UrlSegs))))

\* C13 as claimed: every URL that matches a file pattern on a recognised
\* host gets the result of a single file.
C13_AsClaimed ==
  (ParseReturned /\ Matches(file_patterns, UrlSegs) # {}) => FileOutcome

\* C13  File URLs, amended.  A URL that matches a '/resolve/' or '/blob/'
\* pattern on a recognised host, and no '/tree/' pattern, gets a download
\* URL on hf-mirror.com in '/resolve/' form, whichever host and form
\* matched, and as filename the final segment of the percent-decoded path;
\* the query string plays no part.
C13_FileUrl ==
  (/\ ParseReturned
   /\ Matches(file_patterns, UrlSegs) # {}
   /\ Matches(tree_patterns, UrlSegs) = {}) => FileOutcome

\* C13 witness: a '/blob/' URL on huggingface.co with a query string and an
\* escaped file name was turned into a '/resolve/' URL on the mirror.
C13_Witness ==
  /\ ParseReturned
  /\ Len(call.url) > Len(BeforeQuery(call.url))
  /\ Matches(tree_patterns, UrlSegs) = {}
  /\ \E m \in Matches(file_patterns, UrlSegs) :
       file_patterns[m[1]] = [host |-> "huggingface.co", word |-> "blob", path |-> TRUE]
  /\ Matches(file_patterns, UrlSegs) \subseteq {4} \X (1..Len(UrlSegs))
  /\ ret.val.filename = <<"a b.bin">>
  /\ ret.val.download_url =
       <<"https:", "/", "/", "hf-mirror.com", "/", "u", "/", "m", "/",
         "resolve", "/", "main", "/", "d", "/", "a%20b.bin">>

\* The thread has made its size probe and not yet its first GET.
Probed(f) == f.head.kind # "-"

\* C14  The size probe never fails the transfer.  get_file_size does not
\* raise, whatever the HEAD request does: it returns the Content-Length of a
\* 200 response when the header is there and is a number, and 0 for a failed
\* request, any other status, a missing header or one that is no number.
\* After a probe that gave 0 download_file goes on to its first GET; the
\* only return right after the probe is the idempotence shortcut, which
\* needs a total above 0.
C14_ProbeNeverFails ==
  \A t \in Workers :
    LET f == th[t]
        h == f.head IN
    Probed(f) =>
      /\ ~f.head_raised
      /\ f.total_size =
           (IF h.kind = "response" /\ h.status = 200 /\ h.has_length /\ h.parses
              THEN h.length ELSE 0)
      /\ (f.total_size = 0 => f.pc = "get" /\ f.attempts = 0)
      /\ (Returned(f) => f.result /\ Terminal(f) = "File exists")

\* C14 witness: the 200 response carried a Content-Length that is no
\* number; the size is taken as unknown and the transfer is about to make
\* its first GET.
C14_Witness ==
  \E t \in Workers :
    LET f == th[t] IN
    /\ Probed(f) /\ f.head.status = 200 /\ f.head.has_length /\ ~f.head.parses
    /\ f.total_size = 0 /\ f.pc = "get" /\ ~f.head_raised

\* get_repo_files has returned.
RepoReturned == call.fn = "get_repo_files" /\ ret # NoCall

\* The listing is well formed: a 200 response with a JSON list in which
\* every entry has a type and every file entry a path.
WellFormed(o) ==
  /\ o.kind = "response" /\ o.status = 200 /\ o.json = "list"
  /\ \A k \in 1..Len(o.data) :
       o.data[k].has_type /\ (o.data[k].type = "file" => o.data[k].has_path)

IsFile(item) == item.has_type /\ item.type = "file"

\* C15 as claimed: get_repo_files is all-or-nothing.  For a failed request,
\* a status other than 200, a body that is no JSON list, or a list with an
\* entry without type or a file entry without path, the result is None and
\* no partial list; else it is the list of exactly the entries of type
\* 'file', in listing order, each with its path, the '/resolve/' URL of the
\* same owner, name and branch with that path, and its size (0 when absent).
C15_AsClaimed ==
  RepoReturned =>
    LET o == call.outcome
        c == call.repo_info
        sel == SelectSeq(o.data, IsFile) IN
    IF WellFormed(o)
      THEN /\ ret.val.ok
           /\ Len(ret.val.files) = Len(sel)
           /\ \A k \in 1..Len(sel) :
                ret.val.files[k] =
                  <<sel[k].path,
                    <<"https:", "/", "/", "hf-mirror.com", "/">> \o c.username
                      \o <<"/">> \o c.model \o <<"/", "resolve", "/">>
                      \o c.branch \o <<"/">> \o sel[k].path,
                    IF sel[k].has_size THEN sel[k].size ELSE 0>>
      ELSE ret.val = RepoNone

\* Thread t takes the first step of a download_file invocation.
FirstStep(t) == th[t].pc = "reset" /\ th'[t].pc # "reset"

\* C16  Every download_file invocation starts clean: after its first step
\* cancel_flag and pause_flag are both false, whatever a previous invocation
\* or the controller left in them; a cancellation that ended an earlier
\* file of a batch is not seen by a later invocation.
C16_StartsClean ==
  [][\A t \in Workers :
       FirstStep(t) => cancel_flag' = FALSE /\ pause_flag' = FALSE]_vars

\* C16 witness: the invocation for the second file of a batch found both
\* flags set by the controller (pause, then cancel, pressed after the
\* batch's loop check), and runs with both cleared.
C16_Witness ==
  \E t \in Workers :
    /\ th[t].kind = "batch" /\ th[t].idx = 2 /\ th[t].pc = "probe"
    /\ th[t].found = <<TRUE, TRUE>>
    /\ ~cancel_flag /\ ~pause_flag
    /\ ~cancel_flag

\* Thread t takes the fallback of lines 174-176 and gets a response.
FallbackStep(t) ==
  /\ th[t].pc = "chk206"
  /\ th[t].downloaded_size > 0 /\ th[t].status_code # 206
  /\ th'[t].pc = "open"

\* Thread t opens its destination (line 186).
OpenStep(t) == th[t].pc = "open" /\ th'[t].pc = "next"

\* C17  Range-unsupported fallback.  When a range was requested
\* (downloaded_size > 0) and the status is not 206, downloaded_size becomes
\* 0 and the response that is used comes from a GET without Range header
\* (the full body, never a 206); the destination is then opened truncated,
\* so the stale bytes are gone before the first chunk is written.  A
\* destination is kept for appending only under a 206 response.
C17_Fallback ==
  [][\A t \in Workers :
       /\ FallbackStep(t) =>
            /\ th'[t].downloaded_size = 0
            /\ th'[t].status_code # 206
            /\ th'[t].status_code = 200 => th'[t].body = Remote
       /\ OpenStep(t) /\ th[t].dropped > 0 =>
            fs'[th[t].path].data = <<>>
       /\ OpenStep(t) /\ fs'[th[t].path].data # <<>> =>
            th[t].status_code = 206]_vars

\* C17 witness: the only download, of a destination that held one stale
\* byte, took the fallback and ended with the whole remote file on disk.
C17_Witness ==
  \E t \in Workers :
    /\ th[t].pc = "ret" /\ Terminal(th[t]) = "Done!"
    /\ th[t].dropped = 1 /\ th[t].start = 1 /\ th[t].attempts = 1
    /\ fs[th[t].path].data = Remote
    /\ \A u \in Workers \ {t} : th[u].kind = "none"

\* Thread t starts an attempt: the GET of line 172 is issued.
AttemptStep(t) == th[t].pc = "get" /\ th'[t].attempts = th[t].attempts + 1

\* Thread t meets a transient network failure with attempts remaining.
RetryStep(t) ==
  th'[t].retry_count = th[t].retry_count + 1 /\ th'[t].pc = "sleep"

\* Thread t wakes from the sleep of line 218 and goes to its next attempt.
BackoffStep(t) == th[t].pc = "sleep" /\ th'[t].pc # "sleep"

\* First byte a GET asks for: that of its Range header, 0 without one.
RangeStart(range) == IF range = -1 THEN 0 ELSE range

\* C18  A transient failure with attempts remaining reports a 'retry'
\* status and sends the thread to sleep; the sleeping thread issues no GET,
\* and the step that ends the sleep goes to the next attempt and, when the
\* destination exists, sets downloaded_size and the Range start to its size
\* on disk; every attempt's GET asks for the bytes from the current size of
\* the destination whenever the destination exists (a GET without Range
\* header, sent for an empty or absent destination at the first attempt,
\* asks from byte 0).
C18_RetryFromDisk ==
  [][\A t \in Workers :
       /\ RetryStep(t) => Last(th'[t].statuses) = "retry"
       /\ th[t].pc = "sleep" => th'[t].attempts = th[t].attempts
       /\ BackoffStep(t) =>
            /\ th'[t].pc = "get"
            /\ Exists(th[t].path) =>
                 /\ th'[t].downloaded_size = GetSize(th[t].path)
                 /\ th'[t].range = GetSize(th[t].path)
       /\ AttemptStep(t) /\ Exists(th[t].path) =>
            RangeStart(th[t].range) = GetSize(th[t].path)]_vars

\* C18 witness: the second attempt was issued after a failure in mid-stream,
\* with a Range that starts at the size the destination had grown to.
C18_Witness ==
  \E t \in Workers :
    /\ th[t].pc = "chk206" /\ th[t].attempts = 2 /\ th[t].retry_count = 1
    /\ th[t].start >= 1 /\ GetSize(th[t].path) > th[t].start
    /\ th[t].range = GetSize(th[t].path)
    /\ th[t].downloaded_size = th[t].range
    /\ "retry" = Last(th[t].statuses)

\* Thread t is in the pause wait of lines 189-190 and the wait goes on.
Waiting(t) == th[t].pc = "pause" /\ pause_flag /\ ~cancel_flag

\* C19  While pause is requested and cancel is not, the streaming loop
\* blocks before writing: a thread in the pause wait stays there, its
\* destination, its downloaded_size and the chunk it holds do not change,
\* and the file, the chunk and the rest of the response make up the remote
\* content.  The step that leaves the wait goes to the cancel check with the
\* same chunk, and the write appends exactly that chunk and advances
\* downloaded_size by its length: no chunk is lost or duplicated.
C19_PauseBlocks ==
  [][\A t \in Workers :
       /\ Waiting(t) =>
            /\ th'[t].pc = "pause"
            /\ th'[t].chunk = th[t].chunk
            /\ th'[t].body = th[t].body
            /\ th'[t].downloaded_size = th[t].downloaded_size
            /\ fs'[th[t].path] = fs[th[t].path]
            /\ fs[th[t].path].data \o th[t].chunk \o th[t].body = Remote
       /\ th[t].pc = "pause" /\ th'[t].pc # "pause" =>
            /\ th'[t].pc = "cancelchk"
            /\ th'[t].chunk = th[t].chunk
            /\ th'[t].downloaded_size = th[t].downloaded_size
            /\ fs'[th[t].path] = fs[th[t].path]
       /\ th[t].pc = "write" /\ th'[t].pc = "next" =>
            /\ fs'[th[t].path].data = fs[th[t].path].data \o th[t].chunk
            /\ th'[t].downloaded_size = th[t].downloaded_size + Len(th[t].chunk)]_vars

\* C19 witness: a pause wait that held the first chunk of a resumed
\* transfer was ended by the resume button; the chunk has been written
\* after the bytes the destination had, and the next chunk is asked for.
C19_Witness ==
  \E t \in Workers :
    /\ th[t].pc = "next" /\ th[t].held # <<>>
    /\ th[t].start >= 1 /\ th[t].attempts = 1
    /\ fs[th[t].path].data = Prefix(Remote, th[t].start) \o th[t].held
    /\ th[t].downloaded_size = th[t].start + Len(th[t].held)
    /\ ~cancel_flag

\* The invocation of frame f has reported a path error.
\* os.makedirs raised in the invocation of frame f (lines 138-143).
PathError(f) == f.exc = "path"

\* C20 as claimed: if the destination directory cannot be made,
\* download_file reports the path error to the status callback and returns
\* False at once: it is the only status, no size probe and no GET was
\* issued, no retry was made, and the destination is as the call found it
\* (absent, or with the same size).
C20_AsClaimed ==
  \A t \in Workers :
    PathError(th[t]) =>
      /\ th[t].pc = "ret" /\ ~th[t].result
      /\ th[t].statuses = <<"Path error">>
      /\ th[t].head.kind = "-" /\ th[t].total_size = 0
      /\ th[t].attempts = 0 /\ th[t].retry_count = 0
      /\ th[t].progress = -1
      /\ Exists(th[t].path) <=> th[t].start >= 0
      /\ Exists(th[t].path) => GetSize(th[t].path) = th[t].start

\* Number of statuses of class c that the invocation of frame f emitted.
Count(f, c) == Cardinality({k \in 1..Len(f.statuses) : f.statuses[k] = c})

\* C21 as claimed: an exception raised during an attempt that is none of
\* the three transient network classes is terminal: the invocation has
\* returned False, one 'Error' status, its last, was delivered to the status
\* callback, and it does not issue another GET although attempts may remain.
C21_AsClaimed ==
  \A t \in Workers :
    OtherRaised(th[t]) =>
      /\ th[t].pc = "ret" /\ ~th[t].result
      /\ Terminal(th[t]) = "Error"
      /\ Count(th[t], "Error") = 1

\* Every pause is followed by a resume or a cancel: whenever pause_flag is
\* set, it is cleared later or cancel_flag is set, which is to say that
\* again and again the transfer is not held by a pause.
PausesEnd == []<>(~pause_flag \/ cancel_flag)

\* The pause wait of lines 189-190 polls pause_flag every 0.1 s and leaves
\* the loop only if the flag is clear (or cancel_flag set) at a poll.  It
\* does not miss every resume: a wait that is released again and again is
\* left (a resume or a cancel lasts until the next poll of the waiting
\* thread; at most one thread is alive, so one condition serves them all).
PollsSeeResume == SF_vars(\E t \in Workers : DfPause(t))

\* The invocation of frame f has returned with one of the outcomes: True
\* after 'Done!' or 'File exists'; False after 'Cancelled', an HTTP status,
\* 'Network failed', or an exception of lines 140 and 227.
Outcome(f) ==
  /\ Returned(f)
  /\ \/ f.result /\ Terminal(f) \in {"Done!", "File exists"}
     \/ ~f.result /\ \/ Terminal(f) \in {"Cancelled", "HTTP", "Network failed"}
                     \/ OtherRaised(f) \/ PathError(f)

\* Every running invocation of download_file returns with one of the
\* outcomes, having issued at most MaxRetries GETs of line 172.
Terminates ==
  \A t \in Workers :
    InTransfer(th[t]) ~> (Outcome(th[t]) /\ th[t].attempts <= MaxRetries)

\* C22 as claimed: every download_file invocation eventually returns, with
\* Done or Complete (True) or with Cancelled or a failure (False), provided
\* every network request completes or fails and every pause is followed by
\* a resume or a cancel; the retry loop does not iterate unboundedly.
C22_AsClaimed == PausesEnd => Terminates

\* C22  Termination.  Every download_file invocation eventually returns,
\* with Done or Complete (True) or with Cancelled or a failure (False),
\* having issued at most MaxRetries GETs of line 172, provided every network
\* request completes or fails, every pause is followed by a resume or a
\* cancel, and the pause wait does not miss every resume.
C22_Terminates == (PausesEnd /\ PollsSeeResume) => Terminates

\* C22 witness: an invocation that was paused, resumed, and met two network
\* failures has returned with Done.
C22_Witness ==
  \E t \in Workers :
    /\ Outcome(th[t]) /\ Terminal(th[t]) = "Done!"
    /\ th[t].attempts = MaxRetries /\ th[t].held # <<>>

\* C23 as claimed: when a batch download has begun, a manifest that records
\* its file list is on disk (from which the next startup could tell the
\* files that are absent or incomplete).
C23_AsClaimed ==
  \A t \in Workers :
    th[t].kind = "batch" =>
      manifest.written /\ manifest.files = th[t].files

\* C24 as claimed: a cancel request is never lost.  If cancel_download was
\* called while the transfer was running or about to run, with bytes of the
\* file still to fetch, the invocation returns False, whatever the
\* interleaving of the request with the flag reset of lines 135-136.
C24_AsClaimed ==
  \A t \in Workers :
    (Returned(th[t]) /\ th[t].creq) => ~th[t].result

\* C25  Prefix invariant.  The initial content of every destination being a
\* prefix of the remote content and the server serving that content, every
\* destination holds a prefix of the remote content at every point of every
\* transfer: across appends, retries, the fallback and cancellation.
C25_PrefixInvariant ==
  \A p \in Paths : IsPrefix(fs[p].data, Remote)

\* C25 witness: a transfer that met a network failure and started a second
\* attempt was cancelled; it leaves an incomplete file that has grown since
\* the call.
C25_Witness ==
  \E t \in Workers :
    /\ Returned(th[t]) /\ Terminal(th[t]) = "Cancelled"
    /\ th[t].attempts = 2 /\ th[t].start >= 1
    /\ GetSize(th[t].path) > th[t].start /\ GetSize(th[t].path) < FileSize
    /\ IsPrefix(fs[th[t].path].data, Remote)

\* C26 as claimed: while a download is in progress the controller's paused
\* indicator and the engine's flag agree: whenever is_paused is true,
\* pause_flag is true.
C26_AsClaimed ==
  (is_downloading /\ is_paused) => pause_flag

\* The terminal statuses of the invocation of frame f, in order.
Terminals(f) == SelectSeq(f.statuses, LAMBDA x : x \in TerminalStatuses)

\* C27 as claimed: each invocation emits exactly one terminal status and no
\* status or progress event after it, and returns True if and only if that
\* status is 'Done!' or 'File exists'.
C27_AsClaimed ==
  \A t \in Workers :
    LET f == th[t] IN
    /\ (InCall(f) /\ ~Returned(f)) => Terminals(f) = <<>>
    /\ Returned(f) =>
         /\ Len(Terminals(f)) = 1 /\ Terminal(f) \in TerminalStatuses
         /\ f.tail = <<>>
         /\ f.result <=> Terminal(f) \in {"Done!", "File exists"}

\* Thread t leaves _download_selected_files and reports the batch as
\* completed: _download_finished(True) is scheduled.
ReportsCompleted(t) ==
  /\ AtLoopHead(th[t]) /\ th'[t].kind = "none"
  /\ clock' = Append(clock, Last(clock'))
  /\ Last(clock').type = "finished" /\ Last(clock').success

\* C28 as claimed: a batch is reported to the controller as completed
\* (_download_finished(True)) only if it was not cancelled and every
\* download_file call it made returned True.
C28_AsClaimed ==
  [][\A t \in Workers :
       ReportsCompleted(t) =>
         /\ is_downloading /\ ~cancel_flag
         /\ th[t].idx > Len(th[t].files)
         /\ ~th[t].failed]_vars

====
